---- MODULE Spec2Model ----
(***************************************************************************)
(* Model of the ccc (Coding Container CLI) firewall allowlist compiler,    *)
(* the generated init-firewall.sh, the CLI handlers that feed it and the   *)
(* host validation of remote targets.                                      *)
(*                                                                         *)
(* Domains are numbered 1..NumDomains in the lexicographic order of their  *)
(* host names (1 = api.example.com, 2 = other.example.com,                 *)
(* 3 = registry.example.com in the fixtures of tests/templates.test.ts).   *)
(***************************************************************************)
EXTENDS Integers, Sequences, FiniteSets, TLC

VARIABLES
    fwPc,        \* position of the compile run: "input", "compiled", "recompiled"
    fwOptions,   \* FirewallOptions passed to the first generateFirewall call
    fwOptions2,  \* FirewallOptions of a second call declaring the same domain set
    fwScript,    \* init-firewall.sh returned by the first call
    fwScript2,   \* init-firewall.sh returned by the second call
    polOptions,  \* the configuration init-firewall.sh was generated from
    polScript,   \* the init-firewall.sh being executed in the container
    polPc,       \* index of the next command of the script
    polLoop,     \* index of the next domain of the "for domain" loop
    polStatus,   \* "idle", "running", "done" (exit 0), "aborted" (set -e), "workload" (exec "$@")
    polRuns,     \* number of executions of the script started so far
    dns,         \* what "dig +short <domain> A" prints, per domain
    caps,        \* whether ipset and iptables work in the container
    kernel,      \* the allowed_ips set and the OUTPUT chain of the container
    cleanKernel, \* the same commands applied to a container with no prior state
    agentsDir,   \* names of the enabled agents (~/.ccc/agents/*.toml)
    extensionsDir,       \* names of the enabled extensions (~/.ccc/extensions/*.toml)
    userFirewallDomains, \* the user's firewall domain list
    files,       \* per target, the generated container files (Dockerfile, init-firewall.sh)
    image,       \* per target, the init-firewall.sh copied into the built image
    fwPending,   \* targets not built since the last firewall or extension change
    cliLast,     \* the last CLI command, what it regenerated and whether it succeeded
    hostArg,     \* the host string handed to assertValidHost
    valPc,       \* "idle", "called", "validated", "composed" or "exited"
    valExitCode, \* the exit code of the process
    valCommand,  \* the command composed from the host, <<>> when none
    config,      \* ~/.config/ccc/config.toml: default target and remotes registry
    exec,        \* the last execution of ccc: hosts validated, hosts used, exit code
    call,        \* the last call of a function of config.ts: its arguments and what it did
    world,       \* the container on the target: its state, sessions, companion process, installed agents, files
    mgrRun,      \* the last operation: executor, commands started, result, messages
    mgrTwin,     \* the same operation from the same state under the other executor
    listing,     \* what `shpool list` printed in the container
    listed,      \* the sessions getStatus read from the listing, once it did
    netfilter,   \* the allowed_ips set and the OUTPUT chain of the container sessions are attached to
    attachments, \* per session, how it was last attached: "none", "firewall" or "no-firewall"
    attLast,     \* the last attachSession: its session, its noFirewall option, the chain it found, its commands
    enabledAgents,     \* the agents with a file in ~/.ccc/agents
    default_agent,     \* default_agent of config.toml, "" when unset
    enabledExtensions, \* the extensions with a file in ~/.ccc/extensions
    mcpConfigs,        \* per agent, ~/.ccc/mcp-configs/<agent>.json
    agtLast            \* the last agent or extension command and its exit code

fwVars == <<fwPc, fwOptions, fwOptions2, fwScript, fwScript2>>

polVars == <<polOptions, polScript, polPc, polLoop, polStatus, polRuns,
             dns, caps, kernel, cleanKernel>>

cliVars == <<agentsDir, extensionsDir, userFirewallDomains, files, image, fwPending, cliLast>>

valVars == <<hostArg, valPc, valExitCode, valCommand>>

regVars == <<config, exec>>

apiVars == <<call>>

mgrVars == <<world, mgrRun, mgrTwin>>

lstVars == <<listing, listed>>

attVars == <<netfilter, attachments, attLast>>

agtVars == <<enabledAgents, default_agent, enabledExtensions, mcpConfigs, agtLast>>

vars == <<fwVars, polVars, cliVars, valVars, regVars, apiVars, mgrVars, lstVars, attVars, agtVars>>

\* the variables outside each part of the model
fwRest == <<polVars, cliVars, valVars, regVars, apiVars, mgrVars, lstVars, attVars, agtVars>>

polRest == <<fwVars, cliVars, valVars, regVars, apiVars, mgrVars, lstVars, attVars, agtVars>>

cliRest == <<fwVars, polVars, valVars, regVars, apiVars, mgrVars, lstVars, attVars, agtVars>>

valRest == <<fwVars, polVars, cliVars, regVars, apiVars, mgrVars, lstVars, attVars, agtVars>>

regRest == <<fwVars, polVars, cliVars, valVars, apiVars, mgrVars, lstVars, attVars, agtVars>>

apiRest == <<fwVars, polVars, cliVars, valVars, exec, mgrVars, lstVars, attVars, agtVars>>

mgrRest == <<fwVars, polVars, cliVars, valVars, regVars, apiVars, lstVars, attVars, agtVars>>

lstRest == <<fwVars, polVars, cliVars, valVars, regVars, apiVars, mgrVars, attVars, agtVars>>

attRest == <<fwVars, polVars, cliVars, valVars, regVars, apiVars, mgrVars, lstVars, agtVars>>

agtRest == <<fwVars, polVars, cliVars, valVars, regVars, apiVars, mgrVars, lstVars, attVars>>

----------------------------------------------------------------------------
(* Bounds *)

NumDomains == 3
MaxAgents == 2
MaxExtensions == 1
MaxDomainList == 2
MaxExtraList == 1
MaxRuns == 2
MaxUserDomains == 1
MaxHostLen == 3
MaxRemotes == 2
MaxListing == 6

----------------------------------------------------------------------------
(* Helpers on sequences *)

Range(s) == {s[i] : i \in DOMAIN s}

SeqsUpTo(S, n) == UNION {[1..k -> S] : k \in 0..n}

Reverse(s) == [i \in 1..Len(s) |-> s[Len(s) + 1 - i]]

NoDuplicates(s) == \A i, j \in DOMAIN s : s[i] = s[j] => i = j

Domains == 1..NumDomains

----------------------------------------------------------------------------
(* templates/firewall.ts *)

\* Set.prototype.add on a Set kept in insertion order
SetAdd(allDomains, domain) ==
    IF domain \in Range(allDomains) THEN allDomains ELSE Append(allDomains, domain)

RECURSIVE AddDomains(_, _)
\* for (const domain of agent.firewallDomains) allDomains.add(domain)
AddDomains(allDomains, firewallDomains) ==
    IF firewallDomains = <<>> THEN allDomains
    ELSE AddDomains(SetAdd(allDomains, Head(firewallDomains)), Tail(firewallDomains))

RECURSIVE AddSources(_, _)
\* for (const agent of agents) ...
AddSources(allDomains, sources) ==
    IF sources = <<>> THEN allDomains
    ELSE AddSources(AddDomains(allDomains, Head(sources).firewallDomains), Tail(sources))

\* The match and target of each "iptables -A OUTPUT" line of the template
RuleOf(name) ==
    CASE name = "lo"          -> [out |-> "lo",  proto |-> "any", dport |-> "any",
                                  ctstate |-> "any", matchSet |-> FALSE, target |-> "ACCEPT"]
      [] name = "established" -> [out |-> "any", proto |-> "any", dport |-> "any",
                                  ctstate |-> "ESTABLISHED,RELATED", matchSet |-> FALSE, target |-> "ACCEPT"]
      [] name = "dns-udp"     -> [out |-> "any", proto |-> "udp", dport |-> "53",
                                  ctstate |-> "any", matchSet |-> FALSE, target |-> "ACCEPT"]
      [] name = "dns-tcp"     -> [out |-> "any", proto |-> "tcp", dport |-> "53",
                                  ctstate |-> "any", matchSet |-> FALSE, target |-> "ACCEPT"]
      [] name = "ssh"         -> [out |-> "any", proto |-> "tcp", dport |-> "22",
                                  ctstate |-> "any", matchSet |-> FALSE, target |-> "ACCEPT"]
      [] name = "https"       -> [out |-> "any", proto |-> "tcp", dport |-> "443",
                                  ctstate |-> "any", matchSet |-> TRUE,  target |-> "ACCEPT"]
      [] name = "http"        -> [out |-> "any", proto |-> "tcp", dport |-> "80",
                                  ctstate |-> "any", matchSet |-> TRUE,  target |-> "ACCEPT"]
      [] name = "log"         -> [out |-> "any", proto |-> "any", dport |-> "any",
                                  ctstate |-> "any", matchSet |-> FALSE, target |-> "LOG"]
      [] name = "drop"        -> [out |-> "any", proto |-> "any", dport |-> "any",
                                  ctstate |-> "any", matchSet |-> FALSE, target |-> "DROP"]

\* A command of the script: what it runs, the rule it appends (iptables -A only)
\* and whether the line ends in "|| true"
Cmd(op, rule, orTrue) == [op |-> op, rule |-> rule, orTrue |-> orTrue]

\* The template with its last two iptables lines exchanged
CommandsDropBeforeLog ==
    << Cmd("ipset create", "", FALSE),
       Cmd("ipset flush",  "", FALSE),
       Cmd("for domain",   "", TRUE),
       Cmd("iptables -F",  "", TRUE),
       Cmd("iptables -A",  "lo",          FALSE),
       Cmd("iptables -A",  "established", FALSE),
       Cmd("iptables -A",  "dns-udp",     FALSE),
       Cmd("iptables -A",  "dns-tcp",     FALSE),
       Cmd("iptables -A",  "ssh",         FALSE),
       Cmd("iptables -A",  "https",       FALSE),
       Cmd("iptables -A",  "http",        FALSE),
       Cmd("iptables -A",  "drop",        FALSE),
       Cmd("iptables -A",  "log",         FALSE),
       Cmd("echo",         "", FALSE) >>

\* The body of the template after the ALLOWED_DOMAINS assignment (set -e is in force)
FirewallCommands ==
    << Cmd("ipset create", "", FALSE),
       Cmd("ipset flush",  "", FALSE),
       Cmd("for domain",   "", TRUE),
       Cmd("iptables -F",  "", TRUE),
       Cmd("iptables -A",  "lo",          FALSE),
       Cmd("iptables -A",  "established", FALSE),
       Cmd("iptables -A",  "dns-udp",     FALSE),
       Cmd("iptables -A",  "dns-tcp",     FALSE),
       Cmd("iptables -A",  "ssh",         FALSE),
       Cmd("iptables -A",  "https",       FALSE),
       Cmd("iptables -A",  "http",        FALSE),
       Cmd("iptables -A",  "log",         FALSE),
       Cmd("iptables -A",  "drop",        FALSE),
       Cmd("echo",         "", FALSE) >>

\* generateFirewall(options): only options.agents is read; the Set keeps insertion
\* order and Array.from(allDomains) is joined without sorting
generateFirewall(options) ==
    [ALLOWED_DOMAINS |-> AddSources(<<>>, options.agents),
     commands        |-> FirewallCommands]

----------------------------------------------------------------------------
(* Inputs of generateFirewall *)

AgentSources == [firewallDomains : SeqsUpTo(Domains, MaxDomainList)]

ExtensionSources == [firewallDomains : SeqsUpTo(Domains, MaxExtraList)]

FirewallInputs ==
    [agents      : SeqsUpTo(AgentSources, MaxAgents),
     extensions  : SeqsUpTo(ExtensionSources, MaxExtensions),
     userDomains : SeqsUpTo(Domains, MaxExtraList)]

\* The domains declared by a list of sources
SourceDomains(sources) == UNION {Range(sources[i].firewallDomains) : i \in DOMAIN sources}

\* The set union of the three sources of an input
DeclaredDomains(options) ==
    SourceDomains(options.agents) \cup SourceDomains(options.extensions)
        \cup Range(options.userDomains)

ReverseLists(sources) ==
    [i \in DOMAIN sources |-> [firewallDomains |-> Reverse(sources[i].firewallDomains)]]

\* Another input declaring the same domain set: the agents and extensions lists
\* reversed, the domains inside every list reversed, the agents' and the
\* extensions' declarations exchanged
Rearrange(options, revSources, revLists, swapRoles) ==
    LET a1 == IF revSources THEN Reverse(options.agents) ELSE options.agents
        e1 == IF revSources THEN Reverse(options.extensions) ELSE options.extensions
        a2 == IF revLists THEN ReverseLists(a1) ELSE a1
        e2 == IF revLists THEN ReverseLists(e1) ELSE e1
        u2 == IF revLists THEN Reverse(options.userDomains) ELSE options.userDomains
    IN  [agents      |-> IF swapRoles THEN e2 ELSE a2,
         extensions  |-> IF swapRoles THEN a2 ELSE e2,
         userDomains |-> u2]

NoScript == [ALLOWED_DOMAINS |-> <<>>, commands |-> <<>>]

FwInit ==
    /\ fwPc = "input"
    /\ fwOptions \in FirewallInputs
    /\ \E revSources, revLists, swapRoles \in BOOLEAN :
          fwOptions2 = Rearrange(fwOptions, revSources, revLists, swapRoles)
    /\ fwScript = NoScript
    /\ fwScript2 = NoScript

\* first call of generateFirewall
Compile ==
    /\ fwPc = "input"
    /\ fwScript' = generateFirewall(fwOptions)
    /\ fwPc' = "compiled"
    /\ UNCHANGED <<fwOptions, fwOptions2, fwScript2, fwRest>>

\* second call, on the rearranged input
Recompile ==
    /\ fwPc = "compiled"
    /\ fwScript2' = generateFirewall(fwOptions2)
    /\ fwPc' = "recompiled"
    /\ UNCHANGED <<fwOptions, fwOptions2, fwScript, fwRest>>

FwNext ==
    \/ Compile
    \/ Recompile

FwIdle ==
    /\ fwPc = "idle"
    /\ fwOptions = [agents |-> <<>>, extensions |-> <<>>, userDomains |-> <<>>]
    /\ fwOptions2 = fwOptions
    /\ fwScript = NoScript
    /\ fwScript2 = NoScript

----------------------------------------------------------------------------
(* Execution of init-firewall.sh in the container *)

\* IPv4 addresses: every domain has an address of its own, SharedIp is served
\* by every multi-address domain, OtherIp belongs to no domain
IpOf(domain) == domain

SharedIp == NumDomains + 1

OtherIp == NumDomains + 2

Ips == 1..(NumDomains + 2)

ALine(ip) == [kind |-> "A", ip |-> ip]

CnameLine == [kind |-> "CNAME", ip |-> 0]

TimeoutLine == [kind |-> "comment", ip |-> 0]

\* What dig +short can print for a domain: no address at all, one address,
\* or a CNAME followed by two addresses
DigOutputs(domain) ==
    { {TimeoutLine},
      {ALine(IpOf(domain))},
      {CnameLine, ALine(IpOf(domain)), ALine(SharedIp)} }

\* grep -E '^[0-9]+\.[0-9]+\.[0-9]+\.[0-9]+$': the matching lines and the exit status
Grep(lines) ==
    LET matched == {l \in lines : l.kind = "A"}
    IN  [lines |-> matched, status |-> IF matched = {} THEN 1 ELSE 0]

\* The assignment without "|| true": the status of grep is the status of the line
ResolveIpsWithoutOrTrue(cmd, lines) ==
    [ips    |-> {l.ip : l \in Grep(lines).lines},
     status |-> Grep(lines).status]

\* ips=$(dig ... | grep ... || true): the words of ips and the status of the assignment
ResolveIps(cmd, lines) ==
    LET g == Grep(lines)
    IN  [ips    |-> {l.ip : l \in g.lines},
         status |-> IF g.status # 0 /\ ~cmd.orTrue THEN g.status ELSE 0]

CleanKernel == [setExists |-> FALSE, allowed_ips |-> {}, OUTPUT |-> <<>>]

\* ipset create allowed_ips hash:ip -exist
ExecIpsetCreate(k) ==
    IF k.setExists THEN k ELSE [k EXCEPT !.setExists = TRUE, !.allowed_ips = {}]

\* A flush that leaves the members of the set in place
FlushKeepingMembers(k) == k

\* ipset flush allowed_ips
ExecIpsetFlush(k) == [k EXCEPT !.allowed_ips = {}]

\* for ip in $ips; do ipset add allowed_ips "$ip" -exist 2>/dev/null || true; done
ExecIpsetAdd(k, ips) ==
    IF k.setExists THEN [k EXCEPT !.allowed_ips = @ \cup ips] ELSE k

\* iptables -F OUTPUT
ExecIptablesFlush(k) == [k EXCEPT !.OUTPUT = <<>>]

\* iptables -A OUTPUT <rule>
ExecIptablesAppend(k, rule) == [k EXCEPT !.OUTPUT = Append(@, rule)]

\* The rules appended by the template, in the order of its lines
PolicyChain ==
    LET idx == {i \in DOMAIN FirewallCommands : FirewallCommands[i].op = "iptables -A"}
        RECURSIVE Collect(_)
        Collect(i) ==
            IF i > Len(FirewallCommands) THEN <<>>
            ELSE IF i \in idx THEN <<FirewallCommands[i].rule>> \o Collect(i + 1)
            ELSE Collect(i + 1)
    IN  Collect(1)

\* States a container can be in before the script runs: no set, an empty set,
\* a set holding addresses of an earlier policy; an empty chain (fresh, or
\* flushed by --no-firewall), the chain of an earlier run, a chain of which an
\* earlier run appended only the first rules, a foreign deny-all chain
PriorKernels ==
    { [setExists |-> e, allowed_ips |-> a, OUTPUT |-> c] :
        e \in BOOLEAN,
        a \in {{}, {OtherIp, IpOf(1)}},
        c \in {<<>>, PolicyChain, SubSeq(PolicyChain, 1, 5), <<"drop">>} }

\* A set that does not exist has no members and no rule matches on it; a tool
\* that does not work in the container has left nothing behind
PossibleKernel(k, c) ==
    /\ ~k.setExists =>
          k.allowed_ips = {} /\ \A i \in DOMAIN k.OUTPUT : ~RuleOf(k.OUTPUT[i]).matchSet
    /\ ~c.ipset => ~k.setExists
    /\ ~c.iptables => k.OUTPUT = <<>>

\* The configurations the executed script is generated from: one agent that
\* declares the first k domains, in order or reversed, and possibly one user domain
PolicyInputs ==
    { [agents      |-> <<[firewallDomains |-> IF rev THEN Reverse(s) ELSE s]>>,
       extensions  |-> <<>>,
       userDomains |-> u] :
        s \in {[i \in 1..k |-> i] : k \in 0..NumDomains},
        rev \in BOOLEAN,
        u \in {<<>>, <<NumDomains>>} }

PolIdle ==
    /\ polOptions = [agents |-> <<>>, extensions |-> <<>>, userDomains |-> <<>>]
    /\ polScript = NoScript
    /\ polPc = 0
    /\ polLoop = 0
    /\ polStatus = "idle"
    /\ polRuns = 0
    /\ dns = [d \in Domains |-> {TimeoutLine}]
    /\ caps = [ipset |-> TRUE, iptables |-> TRUE]
    /\ kernel = CleanKernel
    /\ cleanKernel = CleanKernel

\* entrypoint.sh runs /usr/local/bin/init-firewall.sh
PolInit ==
    /\ polOptions \in PolicyInputs
    /\ polScript = generateFirewall(polOptions)
    /\ polPc = 1
    /\ polLoop = 1
    /\ polStatus = "running"
    /\ polRuns = 1
    /\ dns \in {f \in [Domains -> UNION {DigOutputs(d) : d \in Domains}] :
                   \A d \in Domains : f[d] \in DigOutputs(d)}
    /\ caps \in [ipset : BOOLEAN, iptables : BOOLEAN]
    /\ kernel \in {k \in PriorKernels : PossibleKernel(k, caps)}
    /\ cleanKernel = CleanKernel

Running == polStatus = "running" /\ polPc \in DOMAIN polScript.commands

Current == polScript.commands[polPc]

\* One simple command under set -e: its effect when it succeeds; when it fails
\* the script goes on only if the line ends in "|| true"
RunCommand(ok, after, afterClean) ==
    IF ok THEN
        /\ kernel' = after
        /\ cleanKernel' = afterClean
        /\ polPc' = polPc + 1
        /\ UNCHANGED polStatus
    ELSE IF Current.orTrue THEN
        /\ polPc' = polPc + 1
        /\ UNCHANGED <<kernel, cleanKernel, polStatus>>
    ELSE
        /\ polStatus' = "aborted"
        /\ UNCHANGED <<kernel, cleanKernel, polPc>>

IpsetCreate ==
    /\ Running
    /\ Current.op = "ipset create"
    /\ RunCommand(caps.ipset, ExecIpsetCreate(kernel), ExecIpsetCreate(cleanKernel))
    /\ UNCHANGED <<polOptions, polScript, polLoop, polRuns, dns, caps, polRest>>

IpsetFlush ==
    /\ Running
    /\ Current.op = "ipset flush"
    /\ RunCommand(caps.ipset /\ kernel.setExists,
                  ExecIpsetFlush(kernel), ExecIpsetFlush(cleanKernel))
    /\ UNCHANGED <<polOptions, polScript, polLoop, polRuns, dns, caps, polRest>>

\* one iteration of "for domain in $ALLOWED_DOMAINS"
ResolveDomain ==
    /\ Running
    /\ Current.op = "for domain"
    /\ polLoop \in DOMAIN polScript.ALLOWED_DOMAINS
    /\ LET r == ResolveIps(Current, dns[polScript.ALLOWED_DOMAINS[polLoop]])
       IN  IF r.status = 0 THEN
               /\ kernel' = IF caps.ipset THEN ExecIpsetAdd(kernel, r.ips) ELSE kernel
               /\ cleanKernel' = IF caps.ipset THEN ExecIpsetAdd(cleanKernel, r.ips)
                                 ELSE cleanKernel
               /\ polLoop' = polLoop + 1
               /\ UNCHANGED polStatus
           ELSE
               /\ polStatus' = "aborted"
               /\ UNCHANGED <<kernel, cleanKernel, polLoop>>
    /\ UNCHANGED <<polOptions, polScript, polPc, polRuns, dns, caps, polRest>>

\* the word list of the loop is exhausted
LoopDone ==
    /\ Running
    /\ Current.op = "for domain"
    /\ polLoop > Len(polScript.ALLOWED_DOMAINS)
    /\ polPc' = polPc + 1
    /\ UNCHANGED <<polOptions, polScript, polLoop, polStatus, polRuns, dns, caps,
                   kernel, cleanKernel, polRest>>

IptablesFlush ==
    /\ Running
    /\ Current.op = "iptables -F"
    /\ RunCommand(caps.iptables, ExecIptablesFlush(kernel), ExecIptablesFlush(cleanKernel))
    /\ UNCHANGED <<polOptions, polScript, polLoop, polRuns, dns, caps, polRest>>

IptablesAppend ==
    /\ Running
    /\ Current.op = "iptables -A"
    /\ RunCommand(caps.iptables /\ (RuleOf(Current.rule).matchSet => kernel.setExists),
                  ExecIptablesAppend(kernel, Current.rule),
                  ExecIptablesAppend(cleanKernel, Current.rule))
    /\ UNCHANGED <<polOptions, polScript, polLoop, polRuns, dns, caps, polRest>>

\* the final echo; the script exits 0
Echo ==
    /\ Running
    /\ Current.op = "echo"
    /\ polPc' = polPc + 1
    /\ polStatus' = "done"
    /\ UNCHANGED <<polOptions, polScript, polLoop, polRuns, dns, caps, kernel, cleanKernel,
                   polRest>>

\* the container starts again and entrypoint.sh runs the same script in the
\* state the previous run left
Rerun ==
    /\ polStatus \in {"done", "aborted"}
    /\ polRuns < MaxRuns
    /\ polRuns' = polRuns + 1
    /\ polPc' = 1
    /\ polLoop' = 1
    /\ polStatus' = "running"
    /\ cleanKernel' = CleanKernel
    /\ UNCHANGED <<polOptions, polScript, dns, caps, kernel, polRest>>

\* entrypoint.sh after `sudo /usr/local/bin/init-firewall.sh || echo
\* "Warning: Firewall init failed"`: whatever the exit status of the script,
\* the entrypoint goes on and reaches exec "$@"
ExecWorkload ==
    /\ polStatus \in {"done", "aborted"}
    /\ polStatus' = "workload"
    /\ UNCHANGED <<polOptions, polScript, polPc, polLoop, polRuns, dns, caps, kernel,
                   cleanKernel, polRest>>

PolNext ==
    \/ IpsetCreate
    \/ IpsetFlush
    \/ ResolveDomain
    \/ LoopDone
    \/ IptablesFlush
    \/ IptablesAppend
    \/ Echo
    \/ Rerun
    \/ ExecWorkload

----------------------------------------------------------------------------
(* The CLI handlers that change the firewall sources, regenerate the
   container files and build the image *)

\* the agent templates and the extension template of the test fixtures
AgentTemplates == [alpha |-> <<1, 3>>, beta |-> <<1, 2>>]

AgentOrder == <<"alpha", "beta">>

ExtensionTemplates == [test |-> <<1>>]

ExtensionOrder == <<"test">>

Targets == {"local", "remote"}

\* Object.values(getAgents()) / Object.values(loadExtensions()): the enabled
\* entries, in directory order
Enabled(order, templates, enabled) ==
    LET keep(name) == name \in enabled
        names == SelectSeq(order, keep)
    IN  [i \in DOMAIN names |-> [name |-> names[i], firewallDomains |-> templates[names[i]]]]

getAgents == Enabled(AgentOrder, AgentTemplates, agentsDir)

loadExtensions == Enabled(ExtensionOrder, ExtensionTemplates, extensionsDir)

\* addUserFirewallDomain(domain): FALSE when the domain is already listed
addUserFirewallDomain(list, domain) ==
    IF domain \in Range(list) THEN list ELSE Append(list, domain)

\* removeUserFirewallDomain(domain): FALSE when the domain is not listed
removeUserFirewallDomain(list, domain) ==
    LET keep(d) == d # domain IN SelectSeq(list, keep)

\* generateContainerFiles(options).firewall
generateContainerFiles(agents, extensions, userDomains) ==
    [exists   |-> TRUE,
     firewall |-> generateFirewall([agents      |-> agents,
                                    extensions  |-> extensions,
                                    userDomains |-> userDomains])]

NoFiles == [exists |-> FALSE, firewall |-> NoScript]

\* the domains declared by the enabled agents, the enabled extensions and the user
ActiveDomains(agents, extensions, userDomains) ==
    SourceDomains(agents) \cup SourceDomains(extensions) \cup Range(userDomains)

Last(cmd, target, ok, regen, agents) ==
    [cmd |-> cmd, target |-> target, ok |-> ok, regen |-> regen, agents |-> agents]

CliIdle ==
    /\ agentsDir = {}
    /\ extensionsDir = {}
    /\ userFirewallDomains = <<>>
    /\ files = [t \in Targets |-> NoFiles]
    /\ image = [t \in Targets |-> NoScript]
    /\ fwPending = {}
    /\ cliLast = Last("none", "local", TRUE, "none", {})

\* a fresh installation: nothing enabled, no file generated, no image built
CliInit == CliIdle

\* docker compose build in the directory of the target: the image gets the
\* init-firewall.sh found there
Built(target, dir, ok) ==
    /\ image' = IF ok THEN [image EXCEPT ![target] = dir.firewall] ELSE image
    /\ fwPending' = IF ok THEN fwPending \ {target} ELSE fwPending

\* ccc init [target] [--agents names] [--no-build]
CccInit(target, names, build, ok) ==
    /\ names # {}
    /\ IF agentsDir = {} THEN TRUE ELSE names \subseteq agentsDir
    /\ agentsDir' = IF agentsDir = {} THEN names ELSE agentsDir
    /\ LET selectedAgents == Enabled(AgentOrder, AgentTemplates, names)
           generated == generateContainerFiles(selectedAgents, loadExtensions,
                                               userFirewallDomains)
       IN  /\ files' = [files EXCEPT ![target] = generated]
           /\ IF build THEN Built(target, generated, ok)
              ELSE UNCHANGED <<image, fwPending>>
           /\ cliLast' = Last("init", target, ~build \/ ok, target, names)
    /\ UNCHANGED <<extensionsDir, userFirewallDomains, cliRest>>

\* ccc build [target]
CccBuild(target, ok) ==
    /\ IF target = "remote" THEN
           LET synced == IF getAgents # <<>>
                         THEN generateContainerFiles(getAgents, loadExtensions,
                                                     userFirewallDomains)
                         ELSE files[target]
               done == ok /\ synced.exists
           IN  /\ files' = [files EXCEPT ![target] = synced]
               /\ Built(target, synced, done)
               /\ cliLast' = Last("build", target, done,
                                  IF getAgents # <<>> THEN target ELSE "none", agentsDir)
       ELSE
           LET done == ok /\ files[target].exists
           IN  /\ Built(target, files[target], done)
               /\ cliLast' = Last("build", target, done, "none", agentsDir)
               /\ UNCHANGED files
    /\ UNCHANGED <<agentsDir, extensionsDir, userFirewallDomains, cliRest>>

\* ccc agent add <name> [target] [--no-build]
AgentAdd(name, target, build, ok) ==
    /\ agentsDir' = agentsDir \cup {name}
    /\ LET allAgents == Enabled(AgentOrder, AgentTemplates, agentsDir')
           generated == generateContainerFiles(allAgents, loadExtensions,
                                               userFirewallDomains)
           regenerated == build /\ (target = "remote" \/ files[target].exists)
       IN  IF regenerated THEN
               /\ files' = [files EXCEPT ![target] = generated]
               /\ Built(target, generated, ok)
               /\ cliLast' = Last("agent add", target, ok, target, agentsDir')
           ELSE
               /\ cliLast' = Last("agent add", target, ~build, "none", agentsDir')
               /\ UNCHANGED <<files, image, fwPending>>
    /\ UNCHANGED <<extensionsDir, userFirewallDomains, cliRest>>

\* ccc agent rm <name>
AgentRm(name) ==
    /\ name \in agentsDir
    /\ agentsDir' = agentsDir \ {name}
    /\ cliLast' = Last("agent rm", "local", TRUE, "none", agentsDir')
    /\ UNCHANGED <<extensionsDir, userFirewallDomains, files, image, fwPending, cliRest>>

\* ccc extension add <name>
ExtensionAdd(name) ==
    /\ name \notin extensionsDir
    /\ extensionsDir' = extensionsDir \cup {name}
    /\ fwPending' = Targets
    /\ cliLast' = Last("extension add", "local", TRUE, "none", agentsDir)
    /\ UNCHANGED <<agentsDir, userFirewallDomains, files, image, cliRest>>

\* ccc extension rm <name>
ExtensionRm(name) ==
    /\ name \in extensionsDir
    /\ extensionsDir' = extensionsDir \ {name}
    /\ fwPending' = Targets
    /\ cliLast' = Last("extension rm", "local", TRUE, "none", agentsDir)
    /\ UNCHANGED <<agentsDir, userFirewallDomains, files, image, cliRest>>

\* ccc firewall add <domain>
FirewallAdd(domain) ==
    /\ domain \notin Range(userFirewallDomains)
    /\ Len(userFirewallDomains) < MaxUserDomains
    /\ userFirewallDomains' = addUserFirewallDomain(userFirewallDomains, domain)
    /\ fwPending' = Targets
    /\ cliLast' = Last("firewall add", "local", TRUE, "none", agentsDir)
    /\ UNCHANGED <<agentsDir, extensionsDir, files, image, cliRest>>

\* ccc firewall rm <domain>
FirewallRm(domain) ==
    /\ domain \in Range(userFirewallDomains)
    /\ userFirewallDomains' = removeUserFirewallDomain(userFirewallDomains, domain)
    /\ fwPending' = Targets
    /\ cliLast' = Last("firewall rm", "local", TRUE, "none", agentsDir)
    /\ UNCHANGED <<agentsDir, extensionsDir, files, image, cliRest>>

CliNext ==
    \/ \E target \in Targets, names \in SUBSET DOMAIN AgentTemplates, build, ok \in BOOLEAN :
          CccInit(target, names, build, ok)
    \/ \E target \in Targets, ok \in BOOLEAN : CccBuild(target, ok)
    \/ \E name \in DOMAIN AgentTemplates, target \in Targets, build, ok \in BOOLEAN :
          AgentAdd(name, target, build, ok)
    \/ \E name \in DOMAIN AgentTemplates : AgentRm(name)
    \/ \E name \in DOMAIN ExtensionTemplates : ExtensionAdd(name)
    \/ \E name \in DOMAIN ExtensionTemplates : ExtensionRm(name)
    \/ \E domain \in Domains : FirewallAdd(domain)
    \/ \E domain \in Domains : FirewallRm(domain)

----------------------------------------------------------------------------
(* config.ts: host validation.  A string is the sequence of its characters *)

Lower == {"a", "b", "c", "d", "e", "f", "g", "h", "i", "j", "k", "l", "m",
          "n", "o", "p", "q", "r", "s", "t", "u", "v", "w", "x", "y", "z"}

Upper == {"A", "B", "C", "D", "E", "F", "G", "H", "I", "J", "K", "L", "M",
          "N", "O", "P", "Q", "R", "S", "T", "U", "V", "W", "X", "Y", "Z"}

Digits == {"0", "1", "2", "3", "4", "5", "6", "7", "8", "9"}

\* the class of /^[A-Za-z0-9._~-]+$/
USER_CLASS == Lower \cup Upper \cup Digits \cup {".", "_", "~", "-"}

\* the class of HOSTNAME_PATTERN = /^[A-Za-z0-9._~:%\-[\]]+$/
HOSTNAME_PATTERN == Lower \cup Upper \cup Digits \cup {".", "_", "~", ":", "%", "-", "[", "]"}

\* /^[class]+$/.test(s): at least one character, all of them in the class
\* (without the m flag, $ matches only at the end of the input)
RegexTest(class, s) == s # <<>> /\ \A i \in DOMAIN s : s[i] \in class

RECURSIVE SplitFrom(_, _, _)
\* the parts of s after position i, `part` being the part read so far
SplitFrom(s, i, part) ==
    IF i > Len(s) THEN <<part>>
    ELSE IF s[i] = "@" THEN <<part>> \o SplitFrom(s, i + 1, <<>>)
    ELSE SplitFrom(s, i + 1, Append(part, s[i]))

\* host.split("@")
Split(s) == SplitFrom(s, 1, <<>>)

\* a user part taken for a hostname: tested against HOSTNAME_PATTERN
assertValidHostOneClass(host) ==
    LET parts == Split(host)
    IN  /\ host # <<>>
        /\ Len(parts) <= 2
        /\ \A i \in DOMAIN parts : RegexTest(HOSTNAME_PATTERN, parts[i])

\* assertValidHost(host): TRUE when it returns, FALSE when it calls process.exit(1)
assertValidHost(host) ==
    LET parts == Split(host)
        twoParts == Len(parts) = 2
        user == IF twoParts THEN parts[1] ELSE <<>>
        hostname == IF twoParts THEN parts[2] ELSE parts[1]
    IN  IF host = <<>> THEN FALSE
        ELSE IF Len(parts) > 2 THEN FALSE
        ELSE IF twoParts /\ (user = <<>> \/ hostname = <<>>) THEN FALSE
        ELSE IF user # <<>> /\ ~RegexTest(USER_CLASS, user) THEN FALSE
        ELSE IF hostname = <<>> \/ ~RegexTest(HOSTNAME_PATTERN, hostname) THEN FALSE
        ELSE TRUE

\* the host strings of the tests
UserBadHost == <<"u", "s", "e", "r", "@", "b", "a", "d", " ", "h", "o", "s", "t">>

UserAtIp == <<"u", "s", "e", "r", "@", "1", "9", "2", ".", "1", "6", "8", ".", "1", ".", "1", "0", "0">>

PlainHost == <<"p", "l", "a", "i", "n", "h", "o", "s", "t", ".",
               "e", "x", "a", "m", "p", "l", "e", ".", "c", "o", "m">>

\* one character of each kind: in both classes, in the user class only by
\* position ("~"), in the hostname class only, the separator, a blank, a
\* line feed, a shell metacharacter
HostAlphabet == {"a", "~", ":", "@", " ", "\n", ";"}

HostStrings == SeqsUpTo(HostAlphabet, MaxHostLen) \cup {UserBadHost, UserAtIp, PlainHost}

ValIdle ==
    /\ hostArg = <<>>
    /\ valPc = "idle"
    /\ valExitCode = 0
    /\ valCommand = <<>>

\* resolveTarget / addRemote called with a host string
ValInit ==
    /\ hostArg \in HostStrings
    /\ valPc = "called"
    /\ valExitCode = 0
    /\ valCommand = <<>>

\* the call of assertValidHost: it returns, or the process exits with code 1
Validate ==
    /\ valPc = "called"
    /\ IF assertValidHost(hostArg)
       THEN valPc' = "validated" /\ UNCHANGED valExitCode
       ELSE valPc' = "exited" /\ valExitCode' = 1
    /\ UNCHANGED <<hostArg, valCommand, valRest>>

\* the caller goes on and composes the ssh command of the host
ComposeCommand ==
    /\ valPc = "validated"
    /\ valCommand' = <<"ssh", hostArg>>
    /\ valPc' = "composed"
    /\ UNCHANGED <<hostArg, valExitCode, valRest>>

ValNext ==
    \/ Validate
    \/ ComposeCommand

----------------------------------------------------------------------------
(* config.ts: the remotes registry and resolveTarget; the CLI commands that
   take a target *)

Local == <<"l", "o", "c", "a", "l">>

\* target.startsWith("@")
StartsWithAt(s) == s # <<>> /\ s[1] = "@"

\* target.includes("@")
IncludesAt(s) == \E i \in DOMAIN s : s[i] = "@"

\* alias.startsWith("@") ? alias : `@${alias}`
AliasName(s) == IF StartsWithAt(s) THEN s ELSE <<"@">> \o s

DEFAULT_CONFIG == [default |-> Local, remotes |-> <<>>]

RECURSIVE FindRemote(_, _, _)
\* for (const [name, remote] of Object.entries(config.remotes)): the first
\* entry whose name or one of whose aliases is aliasName, from position i on
FindRemote(remotes, aliasName, i) ==
    IF i > Len(remotes) THEN 0
    ELSE IF \/ <<"@">> \o remotes[i].name = aliasName
            \/ \E j \in DOMAIN remotes[i].alias : AliasName(remotes[i].alias[j]) = aliasName
         THEN i
         ELSE FindRemote(remotes, aliasName, i + 1)

\* what a call of resolveTarget does: it returns null ("local"), returns a
\* host ("remote") or ends the process ("exit"); `checked` are the strings it
\* handed to assertValidHost
Resolved(kind, host, checked) == [kind |-> kind, host |-> host, checked |-> checked]

\* an unknown remote taken for the local target
resolveTargetFallsBack(cfg, arg) ==
    LET target == IF arg = <<>> THEN cfg.default ELSE arg
        found == FindRemote(cfg.remotes, AliasName(target), 1)
    IN  IF target = Local THEN Resolved("local", <<>>, {})
        ELSE IF IncludesAt(target) /\ ~StartsWithAt(target) THEN
            IF assertValidHost(target) THEN Resolved("remote", target, {target})
            ELSE Resolved("exit", <<>>, {target})
        ELSE IF found # 0 THEN
            IF assertValidHost(cfg.remotes[found].host)
            THEN Resolved("remote", cfg.remotes[found].host, {cfg.remotes[found].host})
            ELSE Resolved("exit", <<>>, {cfg.remotes[found].host})
        ELSE Resolved("local", <<>>, {})

\* resolveTarget(target), <<>> standing for no target
resolveTarget(cfg, arg) ==
    LET target == IF arg = <<>> THEN cfg.default ELSE arg
        found == FindRemote(cfg.remotes, AliasName(target), 1)
    IN  IF target = Local THEN Resolved("local", <<>>, {})
        ELSE IF IncludesAt(target) /\ ~StartsWithAt(target) THEN
            IF assertValidHost(target) THEN Resolved("remote", target, {target})
            ELSE Resolved("exit", <<>>, {target})
        ELSE IF found # 0 THEN
            IF assertValidHost(cfg.remotes[found].host)
            THEN Resolved("remote", cfg.remotes[found].host, {cfg.remotes[found].host})
            ELSE Resolved("exit", <<>>, {cfg.remotes[found].host})
        ELSE Resolved("exit", <<>>, {})

\* position of the remote called name, 0 when there is none
RemoteIndex(remotes, name) ==
    IF \E i \in DOMAIN remotes : remotes[i].name = name
    THEN CHOOSE i \in DOMAIN remotes : remotes[i].name = name
    ELSE 0

\* config.remotes[name] = { host, alias }: a new key goes last, an existing
\* key keeps its place
SetRemote(remotes, name, host, alias) ==
    LET entry == [name |-> name, host |-> host, alias |-> alias]
        at == RemoteIndex(remotes, name)
    IN  IF at = 0 THEN Append(remotes, entry) ELSE [remotes EXCEPT ![at] = entry]

\* delete config.remotes[name]
DeleteRemote(remotes, name) ==
    LET keep(r) == r.name # name IN SelectSeq(remotes, keep)

\* the strings typed on the command line and found in config.toml
RemoteNames == {<<"s">>, <<"t">>}

AliasLists == {<<>>, << <<"a">> >>}

HostPool == { <<"u", "@", "h">>, <<"h">>, <<"u", "@", "h", ";", "x">> }

TargetPool ==
    {<<>>, Local, <<"@", "s">>, <<"t">>, <<"@", "a">>, <<"@", "z">>,
     <<"u", "@", "h">>, <<"u", "@", "b", " ", "h">>}

\* the record of one execution of ccc: the strings that passed
\* assertValidHost, the hosts placed into ssh/scp commands, the exit code
Execution(cmd, checked, ssh, code) ==
    [cmd |-> cmd, validated |-> {h \in checked : assertValidHost(h)},
     ssh |-> ssh, exitCode |-> code]

RegIdle ==
    /\ config = DEFAULT_CONFIG
    /\ exec = Execution("none", {}, {}, 0)

\* no config.toml yet: loadConfig returns DEFAULT_CONFIG
RegInit == RegIdle

\* ccc init|build|start|kill|logs|restart [target]: host = resolveTarget(target),
\* then the remote operation (ssh/scp with the host) or the local one
TargetedCommands == {"init", "build", "start", "kill", "logs", "restart"}

CccTargeted(cmd, target) ==
    /\ LET r == resolveTarget(config, target)
       IN  exec' = Execution(cmd, r.checked,
                             IF r.kind = "remote" THEN {r.host} ELSE {},
                             IF r.kind = "exit" THEN 1 ELSE 0)
    /\ UNCHANGED <<config, regRest>>

\* ccc [target]: a target that starts with "@" is resolved and attached over
\* ssh; anything else names a local session
CccAttach(target) ==
    /\ LET r == IF StartsWithAt(target) THEN resolveTarget(config, target)
                ELSE Resolved("local", <<>>, {})
       IN  exec' = Execution("attach", r.checked,
                             IF r.kind = "remote" THEN {r.host} ELSE {},
                             IF r.kind = "exit" THEN 1 ELSE 0)
    /\ UNCHANGED <<config, regRest>>

\* ccc status, ccc ls without target: getRemoteHostStatus(config.host) for
\* every remote of the registry, which starts with testSSHConnection(host)
CccStatus(cmd) ==
    /\ exec' = Execution(cmd, {}, {config.remotes[i].host : i \in DOMAIN config.remotes}, 0)
    /\ UNCHANGED <<config, regRest>>

\* ccc remote add <name> <host> [--alias ...]
RemoteAdd(name, host, alias) ==
    /\ RemoteIndex(config.remotes, name) # 0 \/ Len(config.remotes) < MaxRemotes
    /\ IF assertValidHost(host) THEN
           /\ config' = [config EXCEPT !.remotes = SetRemote(@, name, host, alias)]
           /\ exec' = Execution("remote add", {host}, {}, 0)
       ELSE
           /\ exec' = Execution("remote add", {host}, {}, 1)
           /\ UNCHANGED config
    /\ UNCHANGED regRest

\* ccc remote rm <name>
RemoteRm(name) ==
    /\ IF RemoteIndex(config.remotes, name) # 0 THEN
           /\ config' = [default |-> IF config.default = <<"@">> \o name
                                     THEN Local ELSE config.default,
                         remotes |-> DeleteRemote(config.remotes, name)]
           /\ exec' = Execution("remote rm", {}, {}, 0)
       ELSE
           /\ exec' = Execution("remote rm", {}, {}, 1)
           /\ UNCHANGED config
    /\ UNCHANGED regRest

\* ccc remote default <target>
RemoteDefault(target) ==
    /\ target # <<>>
    /\ config' = [config EXCEPT !.default = target]
    /\ exec' = Execution("remote default", {}, {}, 0)
    /\ UNCHANGED regRest

\* config.toml changed outside ccc (an editor, another version): loadConfig
\* takes the host of a remote as it finds it
EditConfigFile(name, host) ==
    /\ RemoteIndex(config.remotes, name) # 0
    /\ config' = [config EXCEPT !.remotes[RemoteIndex(config.remotes, name)].host = host]
    /\ UNCHANGED <<exec, regRest>>

RegNext ==
    \/ \E cmd \in TargetedCommands, target \in TargetPool : CccTargeted(cmd, target)
    \/ \E target \in TargetPool : CccAttach(target)
    \/ \E cmd \in {"status", "ls"} : CccStatus(cmd)
    \/ \E name \in RemoteNames, host \in HostPool, alias \in AliasLists :
          RemoteAdd(name, host, alias)
    \/ \E name \in RemoteNames : RemoteRm(name)
    \/ \E target \in TargetPool : RemoteDefault(target)
    \/ \E name \in RemoteNames, host \in HostPool : EditConfigFile(name, host)

----------------------------------------------------------------------------
(* config.ts: addRemote, removeRemote, setDefault and resolveTarget called
   one after another, as the tests call them *)

\* the arguments of the calls
ApiHosts == { <<"u", "@", "h">>, <<"h">>, <<"u", "@", "b", " ", "h">> }

ApiAliasLists == {<<>>, << <<"a">> >>, << <<"@", "b">> >>, << <<"t">> >>}

ApiTargets ==
    {<<>>, Local, <<"@", "s">>, <<"s">>, <<"@", "t">>, <<"@", "a">>, <<"a">>,
     <<"@", "b">>, <<"b">>, <<"@", "z">>, <<"z">>, <<"u", "@", "h">>}

\* the arguments of setDefault
ApiDefaults == {Local, <<"@", "s">>, <<"s">>, <<"@", "a">>, <<"@", "z">>}

\* what console.error printed before process.exit(1)
ErrorOf(r) ==
    IF r.kind # "exit" THEN "none"
    ELSE IF r.checked = {} THEN "Unknown remote" ELSE "Invalid host"

\* the record of one call
Call(fn, name, host, alias, target, result) ==
    [fn |-> fn, name |-> name, host |-> host, alias |-> alias, target |-> target,
     result |-> result, error |-> ErrorOf(result),
     exitCode |-> IF result.kind = "exit" THEN 1 ELSE 0]

NoCall == Call("none", <<>>, <<>>, <<>>, <<>>, Resolved("none", <<>>, {}))

ApiIdle == call = NoCall

ApiInit == call = NoCall

\* addRemote(name, host, aliases)
AddRemoteCall(name, host, alias) ==
    /\ RemoteIndex(config.remotes, name) # 0 \/ Len(config.remotes) < MaxRemotes
    /\ IF assertValidHost(host) THEN
           /\ config' = [config EXCEPT !.remotes = SetRemote(@, name, host, alias)]
           /\ call' = Call("addRemote", name, host, alias, <<>>, Resolved("ok", <<>>, {host}))
       ELSE
           /\ call' = Call("addRemote", name, host, alias, <<>>, Resolved("exit", <<>>, {host}))
           /\ UNCHANGED config
    /\ UNCHANGED apiRest

\* removeRemote(name)
RemoveRemoteCall(name) ==
    /\ IF RemoteIndex(config.remotes, name) # 0 THEN
           /\ config' = [default |-> IF config.default = <<"@">> \o name
                                     THEN Local ELSE config.default,
                         remotes |-> DeleteRemote(config.remotes, name)]
           /\ call' = Call("removeRemote", name, <<>>, <<>>, <<>>, Resolved("true", <<>>, {}))
       ELSE
           /\ call' = Call("removeRemote", name, <<>>, <<>>, <<>>, Resolved("false", <<>>, {}))
           /\ UNCHANGED config
    /\ UNCHANGED apiRest

\* setDefault(target)
SetDefaultCall(target) ==
    /\ target # <<>>
    /\ config' = [config EXCEPT !.default = target]
    /\ call' = Call("setDefault", <<>>, <<>>, <<>>, target, Resolved("ok", <<>>, {}))
    /\ UNCHANGED apiRest

\* resolveTarget(target), <<>> standing for resolveTarget()
ResolveTargetCall(target) ==
    /\ call' = Call("resolveTarget", <<>>, <<>>, <<>>, target, resolveTarget(config, target))
    /\ UNCHANGED <<config, apiRest>>

\* the commands that take an optional target
OptionalTargetCommands == {"attach", "build", "start", "kill", "logs", "restart"}

\* where a command acts: build, start, kill, logs and restart call
\* resolveTarget(target); the root action (attach) resolves only a target
\* that starts with "@" and attaches locally otherwise
TargetOf(cmd, cfg, target) ==
    IF cmd = "attach" /\ ~StartsWithAt(target) THEN Resolved("local", <<>>, {})
    ELSE resolveTarget(cfg, target)

\* ccc, ccc build, ccc start, ccc kill <session>, ccc logs, ccc restart
\* invoked without a target
CommandWithoutTarget(cmd) ==
    /\ call' = Call(cmd, <<>>, <<>>, <<>>, <<>>, TargetOf(cmd, config, <<>>))
    /\ UNCHANGED <<config, apiRest>>

ApiNext ==
    \/ \E name \in RemoteNames, host \in ApiHosts, alias \in ApiAliasLists :
          AddRemoteCall(name, host, alias)
    \/ \E name \in RemoteNames : RemoveRemoteCall(name)
    \/ \E target \in ApiDefaults : SetDefaultCall(target)
    \/ \E target \in ApiTargets : ResolveTargetCall(target)
    \/ \E cmd \in OptionalTargetCommands : CommandWithoutTarget(cmd)

----------------------------------------------------------------------------
(* deploy/executor.ts and the commands it runs against the container *)

SessionOrder == <<"main", "work">>

Whitespace == {" ", "\n", "\t"}

\* String.prototype.trim
Trim(s) ==
    LET keep == {i \in DOMAIN s : s[i] \notin Whitespace}
    IN  IF keep = {} THEN <<>>
        ELSE SubSeq(s, CHOOSE i \in keep : \A j \in keep : i <= j,
                       CHOOSE i \in keep : \A j \in keep : j <= i)

RECURSIVE SplitLines(_, _, _)
\* s.split("\n") from position i on, `line` being the line read so far
SplitLines(s, i, line) ==
    IF i > Len(s) THEN <<line>>
    ELSE IF s[i] = "\n" THEN <<line>> \o SplitLines(s, i + 1, <<>>)
    ELSE SplitLines(s, i + 1, Append(line, s[i]))

\* one docker command: what it is and the session or option it names, ""
\* when none
Command(op, arg) == [op |-> op, arg |-> arg]

\* what `shpool list` prints: a header line and one line per session
ShpoolList(sessions) ==
    LET row(name) == IF name \in sessions THEN <<name, "\t", "1s", "\n">> ELSE <<>>
    IN  <<"NAME", "\t", "STARTED_AT", "\n">> \o row(SessionOrder[1]) \o row(SessionOrder[2])

\* the process of a docker command: exit code, standard output, and the
\* container after it; a command in `faults` fails whatever the container is
Docker(cmd, w, faults) ==
    LET fail == [code |-> 1, out |-> <<>>, world |-> w]
        done(out, after) == [code |-> 0, out |-> out, world |-> after]
        running == w.container = "Running"
        fresh == [w EXCEPT !.container = "Running", !.sessions = {}, !.takopi = FALSE]
    IN  IF cmd.op \in faults THEN fail
        ELSE CASE cmd.op = "docker inspect" ->
                    IF w.container = "Absent" THEN fail
                    ELSE done(<<IF running THEN "true" ELSE "false", "\n">>, w)
               [] cmd.op = "pgrep takopi" ->
                    IF running /\ w.takopi THEN done(<<>>, w) ELSE fail
               [] cmd.op = "shpool list" ->
                    IF running THEN done(ShpoolList(w.sessions), w) ELSE fail
               [] cmd.op = "shpool kill" ->
                    IF running /\ cmd.arg \in w.sessions
                    THEN done(<<>>, [w EXCEPT !.sessions = @ \ {cmd.arg}])
                    ELSE fail
               [] cmd.op = "docker restart" ->
                    IF w.container = "Absent" THEN fail ELSE done(<<"ccc", "\n">>, fresh)
               [] cmd.op = "docker compose up -d" ->
                    IF ~w.dockerfile THEN fail
                    ELSE done(<<>>, IF running /\ cmd.arg # "--force-recreate" THEN w ELSE fresh)
               [] cmd.op = "docker compose build" ->
                    IF ~w.dockerfile THEN fail ELSE done(<<>>, w)
               [] OTHER -> fail

ExecOptions(stdio, ignoreError) == [stdio |-> stdio, ignoreError |-> ignoreError]

\* a failure swallowed whatever the options say
execSwallowing(isRemote, cmd, opts, w, faults) ==
    LET unreachable == isRemote /\ "ssh" \in faults
        r == IF unreachable THEN [code |-> 255, out |-> <<>>, world |-> w]
             ELSE Docker(cmd, w, faults)
    IN  [started |-> << [via |-> IF isRemote THEN "ssh" ELSE "sh", cmd |-> cmd] >>,
         code |-> r.code,
         threw |-> FALSE,
         value |-> IF r.code # 0 \/ opts.stdio = "inherit" THEN <<>> ELSE Trim(r.out),
         world |-> r.world]

\* LocalExecutor.exec / RemoteExecutor.exec: one execSync of the command
\* (through ssh for the remote), its output trimmed; execSync returns null
\* under stdio "inherit" and throws on a nonzero exit
executorExec(isRemote, cmd, opts, w, faults) ==
    LET unreachable == isRemote /\ "ssh" \in faults
        r == IF unreachable THEN [code |-> 255, out |-> <<>>, world |-> w]
             ELSE Docker(cmd, w, faults)
    IN  [started |-> << [via |-> IF isRemote THEN "ssh" ELSE "sh", cmd |-> cmd] >>,
         code |-> r.code,
         threw |-> r.code # 0 /\ ~opts.ignoreError,
         value |-> IF r.code # 0 \/ opts.stdio = "inherit" THEN <<>> ELSE Trim(r.out),
         world |-> r.world]

----------------------------------------------------------------------------
(* config.ts: ContainerManager *)

\* what an operation did: the processes it started, whether it threw, the
\* value it returned, what it printed, the container after it, how the
\* command ended ("returned", "threw", "uncaught", "exit 1"), and what it was
\* given (filled in by the caller)
Run(op, isRemote, started, threw, value, messages, after) ==
    [op |-> op, isRemote |-> isRemote, started |-> started, threw |-> threw,
     value |-> value, messages |-> messages, world |-> after,
     ended |-> IF threw THEN "threw" ELSE "returned",
     input |-> [faults |-> {}, world |-> after, arg |-> ""]]

RECURSIVE FirstField(_)
\* line.split(/\s+/)[0]: the characters before the first whitespace, "" for
\* a line that starts with whitespace
FirstField(line) ==
    IF line = <<>> \/ line[1] \in Whitespace THEN ""
    ELSE line[1] \o FirstField(Tail(line))

\* lines.slice(1).map((line) => line.split(/\s+/)[0]).filter(Boolean) of
\* sessionsOutput.trim().split("\n").filter(Boolean)
ParseSessions(output) ==
    LET nonEmpty(line) == line # <<>>
        lines == SelectSeq(SplitLines(Trim(output), 1, <<>>), nonEmpty)
        names == [i \in 1..(Len(lines) - 1) |-> FirstField(lines[i + 1])]
        truthy(name) == name # ""
    IN  SelectSeq(names, truthy)

\* checkAgentInstalled(agent, checkContext): one probe in the container;
\* a probe that fails reports the agent as not installed
checkAgentInstalled(agent, isRemote, w, faults) ==
    LET installed == /\ agent \notin faults
                     /\ ~(isRemote /\ "ssh" \in faults)
                     /\ w.container = "Running"
                     /\ agent \in w.installed
    IN  [installed |-> installed,
         started |-> << [via |-> IF isRemote THEN "ssh" ELSE "sh",
                         cmd |-> Command("agent version", agent)] >>]

\* the takopi probe left outside try/catch
getStatusTakopiUncaught(isRemote, w, faults) ==
    LET none == [exists |-> FALSE, running |-> FALSE, takopi |-> FALSE,
                 sessions |-> <<>>, agents |-> <<>>]
        inspect == executorExec(isRemote, Command("docker inspect", ""), ExecOptions("pipe", TRUE), w, faults)
        running == inspect.value = <<"true">>
        pgrep == executorExec(isRemote, Command("pgrep takopi", ""), ExecOptions("pipe", FALSE), w, faults)
    IN  IF ~running
        THEN Run("getStatus", isRemote, inspect.started, FALSE,
                 [none EXCEPT !.exists = inspect.value # <<>>], <<>>, w)
        ELSE Run("getStatus", isRemote, inspect.started \o pgrep.started, pgrep.threw,
                 [none EXCEPT !.exists = TRUE, !.running = TRUE, !.takopi = ~pgrep.threw],
                 <<>>, w)

\* the sub-probes attempted whatever the inspection says
getStatusProbingAnyway(isRemote, w, faults) ==
    LET none == [exists |-> FALSE, running |-> FALSE, takopi |-> FALSE,
                 sessions |-> <<>>, agents |-> <<>>]
        inspect == executorExec(isRemote, Command("docker inspect", ""), ExecOptions("pipe", TRUE), w, faults)
        list == executorExec(isRemote, Command("shpool list", ""), ExecOptions("pipe", TRUE), w, faults)
    IN  Run("getStatus", isRemote, inspect.started \o list.started, FALSE,
            [none EXCEPT !.exists = inspect.value # <<>>,
                         !.running = inspect.value = <<"true">>,
                         !.sessions = ParseSessions(list.value)],
            <<>>, w)

\* the agent loop ended by the first agent that is not installed
getStatusFirstAgentsOnly(isRemote, w, faults) ==
    LET none == [exists |-> FALSE, running |-> FALSE, takopi |-> FALSE,
                 sessions |-> <<>>, agents |-> <<>>]
        inspect == executorExec(isRemote, Command("docker inspect", ""), ExecOptions("pipe", TRUE), w, faults)
        running == inspect.value = <<"true">>
        first == checkAgentInstalled(AgentOrder[1], isRemote, w, faults)
        second == checkAgentInstalled(AgentOrder[2], isRemote, w, faults)
    IN  IF ~running
        THEN Run("getStatus", isRemote, inspect.started, FALSE,
                 [none EXCEPT !.exists = inspect.value # <<>>], <<>>, w)
        ELSE Run("getStatus", isRemote, inspect.started \o first.started, FALSE,
                 [none EXCEPT !.exists = TRUE, !.running = TRUE,
                              !.agents = IF ~first.installed THEN <<>>
                                         ELSE IF second.installed THEN AgentOrder
                                         ELSE <<AgentOrder[1]>>],
                 <<>>, w)

\* ContainerManager.getStatus(checkContext)
getStatus(isRemote, w, faults) ==
    LET none == [exists |-> FALSE, running |-> FALSE, takopi |-> FALSE,
                 sessions |-> <<>>, agents |-> <<>>]
        inspect == executorExec(isRemote, Command("docker inspect", ""), ExecOptions("pipe", TRUE), w, faults)
        exists == inspect.value # <<>>
        running == exists /\ Trim(inspect.value) = <<"true">>
        pgrep == executorExec(isRemote, Command("pgrep takopi", ""), ExecOptions("pipe", FALSE), w, faults)
        list == executorExec(isRemote, Command("shpool list", ""), ExecOptions("pipe", TRUE), w, faults)
        sessions == IF list.threw \/ list.value = <<>> THEN <<>> ELSE ParseSessions(list.value)
        probe == [i \in DOMAIN AgentOrder |->
                     checkAgentInstalled(AgentOrder[i], isRemote, w, faults)]
        installed(name) == \E i \in DOMAIN AgentOrder : AgentOrder[i] = name /\ probe[i].installed
    IN  IF inspect.threw
        THEN Run("getStatus", isRemote, inspect.started, FALSE, none, <<>>, w)
        ELSE IF ~running
        THEN Run("getStatus", isRemote, inspect.started, FALSE,
                 [none EXCEPT !.exists = exists], <<>>, w)
        ELSE Run("getStatus", isRemote,
                 inspect.started \o pgrep.started \o list.started
                     \o probe[1].started \o probe[2].started,
                 FALSE,
                 [exists |-> TRUE, running |-> TRUE, takopi |-> ~pgrep.threw,
                  sessions |-> sessions, agents |-> SelectSeq(AgentOrder, installed)],
                 <<>>, w)

\* ContainerManager.restart()
restart(isRemote, w, faults) ==
    LET e == executorExec(isRemote, Command("docker restart", ""), ExecOptions("inherit", FALSE), w, faults)
    IN  Run("restart", isRemote, e.started, e.threw, <<>>,
            IF e.threw THEN <<>>
            ELSE IF isRemote THEN <<"Remote container restarted!">>
            ELSE <<"Container restarted">>,
            e.world)

\* ContainerManager.start(forceRecreate)
start(isRemote, forceRecreate, w, faults) ==
    LET cmd == Command("docker compose up -d", IF forceRecreate THEN "--force-recreate" ELSE "")
        e == executorExec(isRemote, cmd, ExecOptions("inherit", FALSE), w, faults)
    IN  Run("start", isRemote, e.started, e.threw, <<>>,
            IF e.threw THEN <<"Failed to start container">>
            ELSE IF isRemote THEN <<"Remote container started!">>
            ELSE <<>>,
            e.world)

\* the failure of the kill command not looked at
killSessionUnchecked(isRemote, sessionName, w, faults) ==
    LET e == executorExec(isRemote, Command("shpool kill", sessionName), ExecOptions("inherit", TRUE), w, faults)
    IN  Run("killSession", isRemote, e.started, FALSE, <<>>,
            <<IF isRemote THEN "Remote session killed" ELSE "Session killed">>, e.world)

\* ContainerManager.killSession(sessionName)
killSession(isRemote, sessionName, w, faults) ==
    LET e == executorExec(isRemote, Command("shpool kill", sessionName), ExecOptions("inherit", FALSE), w, faults)
    IN  Run("killSession", isRemote, e.started, e.threw, <<>>,
            IF e.threw THEN <<>>
            ELSE <<IF isRemote THEN "Remote session killed" ELSE "Session killed">>,
            e.world)

\* ContainerManager.listSessions()
listSessions(isRemote, w, faults) ==
    LET e == executorExec(isRemote, Command("shpool list", ""), ExecOptions("pipe", TRUE), w, faults)
    IN  Run("listSessions", isRemote, e.started, FALSE, <<>>,
            IF e.threw THEN <<"Container not running or no sessions">>
            ELSE IF Trim(e.value) # <<>> THEN e.value
            ELSE <<"No active sessions">>,
            e.world)

\* the promise of build, nothing delivered yet
Pending == [state |-> "pending", code |-> 0, outcomes |-> <<>>, messages |-> <<>>]

\* any close taken for a successful build
OnEventAnyClose(p, ev) ==
    LET settle(state) ==
            IF p.state # "pending" THEN p
            ELSE [p EXCEPT !.state = state, !.code = ev.code, !.outcomes = Append(@, state)]
    IN  IF ev.type = "close"
        THEN [settle("resolved") EXCEPT !.messages = Append(@, "built successfully!")]
        ELSE [settle("rejected") EXCEPT !.messages = Append(@, "Failed to start build")]

\* result.on("close", ...) and result.on("error", ...) of build: resolve and
\* reject settle the promise the first time they are called and do nothing after
OnEvent(p, ev) ==
    LET settle(state) ==
            IF p.state # "pending" THEN p
            ELSE [p EXCEPT !.state = state, !.code = ev.code, !.outcomes = Append(@, state)]
    IN  IF ev.type = "close" THEN
            IF ev.code = 0
            THEN [settle("resolved") EXCEPT !.messages = Append(@, "built successfully!")]
            ELSE [settle("rejected") EXCEPT !.messages = Append(@, "Build failed with code")]
        ELSE [settle("rejected") EXCEPT !.messages = Append(@, "Failed to start build")]

\* ContainerManager.build(options): the child process closes with the exit
\* code of the build, or cannot be launched ("spawn" in faults) and emits
\* error, followed or not by close
build(isRemote, w, faults, closeAfterError) ==
    LET unreachable == isRemote /\ "ssh" \in faults
        r == IF unreachable THEN [code |-> 255, out |-> <<>>, world |-> w]
             ELSE Docker(Command("docker compose build", ""), w, faults)
        launched == "spawn" \notin faults
        error == [type |-> "error", code |-> -2]
        events == IF launched THEN << [type |-> "close", code |-> r.code] >>
                  ELSE IF closeAfterError THEN <<error, [type |-> "close", code |-> -2]>>
                  ELSE <<error>>
        p == IF Len(events) = 1 THEN OnEvent(Pending, events[1])
             ELSE OnEvent(OnEvent(Pending, events[1]), events[2])
    IN  Run("build", isRemote,
            IF launched THEN << [via |-> IF isRemote THEN "ssh" ELSE "sh",
                                 cmd |-> Command("docker compose build", "")] >>
            ELSE <<>>,
            p.state = "rejected", [p EXCEPT !.messages = <<>>], p.messages,
            IF launched THEN r.world ELSE w)

----------------------------------------------------------------------------
(* cli.ts: the handlers of restart, kill, start and build *)

\* how a handler ends: it returns, an exception leaves it, or it calls
\* process.exit(1)
Ended(run, op, ended, messages) ==
    [run EXCEPT !.op = op, !.ended = ended, !.messages = messages]

\* restart [target]: restartRemote(host), or restartContainer, which runs
\* docker restart itself
cccRestart(isRemote, w, faults) ==
    LET r == restart(isRemote, w, faults)
    IN  IF r.threw THEN Ended(r, "ccc restart", "uncaught", r.messages)
        ELSE IF isRemote THEN Ended(r, "ccc restart", "returned", r.messages)
        ELSE Ended(r, "ccc restart", "returned", <<"Container restarted", "Container restarted!">>)

\* kill <session> [target]
cccKill(isRemote, session, w, faults) ==
    LET r == killSession(isRemote, session, w, faults)
    IN  IF r.threw THEN Ended(r, "ccc kill", "uncaught", r.messages)
        ELSE IF isRemote THEN Ended(r, "ccc kill", "returned", r.messages)
        ELSE Ended(r, "ccc kill", "returned", r.messages \o <<"Session killed">>)

\* start [target]
cccStart(isRemote, w, faults) ==
    LET r == start(isRemote, FALSE, w, faults)
    IN  IF r.threw THEN Ended(r, "ccc start", IF isRemote THEN "exit 1" ELSE "uncaught", r.messages)
        ELSE IF isRemote THEN Ended(r, "ccc start", "returned", r.messages)
        ELSE Ended(r, "ccc start", "returned", <<"Container started!">>)

\* build [target]: the remote path syncs the generated files and builds, the
\* local path builds what it finds and gives up without a Dockerfile
cccBuild(isRemote, w, faults, closeAfterError) ==
    LET synced == [w EXCEPT !.dockerfile = TRUE]
        r == build(isRemote, IF isRemote THEN synced ELSE w, faults, closeAfterError)
    IN  IF isRemote THEN
            IF "ssh" \in faults
            THEN Ended(Run("build", TRUE, <<>>, TRUE, Pending, <<>>, w), "ccc build", "exit 1", <<>>)
            ELSE Ended(r, "ccc build", IF r.threw THEN "exit 1" ELSE "returned", r.messages)
        ELSE IF ~w.dockerfile
        THEN Ended(Run("build", FALSE, <<>>, TRUE, Pending, <<>>, w), "ccc build", "exit 1",
                   <<"No Dockerfile found.">>)
        ELSE Ended(r, "ccc build", IF r.threw THEN "uncaught" ELSE "returned", r.messages)

\* agent add <name> [target] with build enabled, from step 2 on: the files
\* are regenerated (synced to the remote), the image is rebuilt and the
\* container is started again, with force-recreate on the local path only.
\* Without force-recreate an existing container is replaced only when
\* compose notices the new image ("image check" in faults: it does not)
cccAgentAdd(isRemote, w, faults) ==
    LET generated == [w EXCEPT !.dockerfile = TRUE]
        b == build(isRemote, generated, faults, FALSE)
        up == start(isRemote, ~isRemote, b.world, faults)
        recreated == \/ ~isRemote
                     \/ b.world.container = "Absent"
                     \/ "image check" \notin faults
        after == IF recreated THEN [up.world EXCEPT !.sessions = {}, !.takopi = FALSE]
                 ELSE up.world
        none == [instance |-> "none"]
    IN  IF ~isRemote /\ ~w.dockerfile
        THEN Ended(Run("build", FALSE, <<>>, TRUE, none, <<>>, w), "ccc agent add", "exit 1",
                   <<"No Dockerfile found.">>)
        ELSE IF b.threw
        THEN Ended(Run("build", isRemote, b.started, TRUE, none, <<>>, b.world),
                   "ccc agent add", "exit 1", b.messages \o <<"Build failed">>)
        ELSE IF up.threw
        THEN Ended(Run("start", isRemote, b.started \o up.started, TRUE, none, <<>>, up.world),
                   "ccc agent add", "exit 1",
                   <<"Container rebuilt">> \o up.messages \o <<"Build failed">>)
        ELSE Ended(Run("start", isRemote, b.started \o up.started, FALSE,
                       [instance |-> IF recreated THEN "new" ELSE "old"], <<>>, after),
                   "ccc agent add", "returned",
                   <<"Container rebuilt">> \o up.messages \o <<"Container started">>)

----------------------------------------------------------------------------
(* deploy/remote.ts: the status of a remote host *)

\* testSSHConnection(host): ssh -o BatchMode=yes <host> "echo ok", any
\* failure caught and reported as false
testSSHConnection(faults) ==
    [reachable |-> "ssh" \notin faults,
     started |-> << [via |-> "ssh", cmd |-> Command("echo ok", "")] >>]

\* the container status asked for whatever the connectivity probe says
getRemoteHostStatusUnprobed(w, faults) ==
    LET s == getStatus(TRUE, w, faults)
    IN  Run("getRemoteHostStatus", TRUE, testSSHConnection(faults).started \o s.started,
            s.threw,
            [reachable |-> testSSHConnection(faults).reachable, exists |-> s.value.exists,
             running |-> s.value.running, takopi |-> s.value.takopi,
             sessions |-> s.value.sessions, agents |-> s.value.agents],
            <<>>, s.world)

\* getRemoteHostStatus(host): { ...status, ...containerStatus } takes every
\* field that getStatus returns and keeps the others
getRemoteHostStatus(w, faults) ==
    LET status == [reachable |-> FALSE, exists |-> FALSE, running |-> FALSE,
                   takopi |-> FALSE, sessions |-> <<>>, agents |-> <<>>]
        probe == testSSHConnection(faults)
        s == getStatus(TRUE, w, faults)
        reached == [status EXCEPT !.reachable = TRUE]
    IN  IF ~probe.reachable
        THEN Run("getRemoteHostStatus", TRUE, probe.started, FALSE, status, <<>>, w)
        ELSE Run("getRemoteHostStatus", TRUE, probe.started \o s.started, s.threw,
                 [f \in DOMAIN reached |->
                     IF f \in DOMAIN s.value THEN s.value[f] ELSE reached[f]],
                 <<>>, s.world)

----------------------------------------------------------------------------
(* The container of one target, with the agents alpha and beta enabled, and
   the operations run against it *)

\* no container, nothing generated yet
NoContainer ==
    [container |-> "Absent", sessions |-> {}, takopi |-> FALSE, installed |-> {},
     dockerfile |-> FALSE]

NoRun == Run("none", FALSE, <<>>, FALSE, <<>>, <<>>, NoContainer)

MgrIdle ==
    /\ world = NoContainer
    /\ mgrRun = NoRun
    /\ mgrTwin = NoRun

MgrInit == MgrIdle

\* one operation per process: it runs under one executor; the twin is what
\* the other executor does from the same state with the same command outcomes
Ran(run, twin, faults, arg) ==
    /\ mgrRun = NoRun
    /\ mgrRun' = [run EXCEPT !.input = [faults |-> faults, world |-> world, arg |-> arg]]
    /\ mgrTwin' = [twin EXCEPT !.input = [faults |-> faults, world |-> world, arg |-> arg]]
    /\ world' = run.world
    /\ UNCHANGED mgrRest

\* the container changed outside the manager
Changed(after) ==
    /\ world' = after
    /\ mgrRun' = NoRun
    /\ mgrTwin' = NoRun
    /\ UNCHANGED mgrRest

ExecCommands ==
    {Command("docker inspect", ""), Command("shpool list", ""),
     Command("pgrep takopi", ""), Command("shpool kill", "main")}

\* executor.exec(cmd, opts)
ExecCommand(isRemote, cmd, opts, faults) ==
    LET process(remote) ==
            IF remote /\ "ssh" \in faults THEN [code |-> 255, out |-> <<>>]
            ELSE [code |-> Docker(cmd, world, faults).code, out |-> Docker(cmd, world, faults).out]
        ran(remote) ==
            LET e == executorExec(remote, cmd, opts, world, faults)
            IN  Run("exec", remote, e.started, e.threw,
                    [code |-> process(remote).code, out |-> process(remote).out,
                     opts |-> opts, returned |-> e.value],
                    <<>>, e.world)
    IN  /\ isRemote \in BOOLEAN
        /\ Ran(ran(isRemote), ran(~isRemote), faults, cmd.arg)

\* manager.getStatus()
GetStatus(isRemote, faults) ==
    /\ isRemote \in BOOLEAN
    /\ Ran(getStatus(isRemote, world, faults), getStatus(~isRemote, world, faults), faults, "")

\* manager.listSessions()
ListSessions(isRemote, faults) ==
    /\ isRemote \in BOOLEAN
    /\ Ran(listSessions(isRemote, world, faults), listSessions(~isRemote, world, faults),
           faults, "")

\* manager.build()
Build(isRemote, faults, closeAfterError) ==
    /\ isRemote \in BOOLEAN
    /\ Ran(build(isRemote, world, faults, closeAfterError),
           build(~isRemote, world, faults, closeAfterError), faults, "")

\* ccc build [target]
BuildCommand(isRemote, faults) ==
    /\ isRemote \in BOOLEAN
    /\ Ran(cccBuild(isRemote, world, faults, FALSE), cccBuild(~isRemote, world, faults, FALSE),
           faults, "")

\* ccc start [target]
StartCommand(isRemote, faults) ==
    /\ isRemote \in BOOLEAN
    /\ Ran(cccStart(isRemote, world, faults), cccStart(~isRemote, world, faults), faults, "")

\* ccc restart [target]
RestartCommand(isRemote, faults) ==
    /\ isRemote \in BOOLEAN
    /\ Ran(cccRestart(isRemote, world, faults), cccRestart(~isRemote, world, faults), faults, "")

\* ccc kill <session> [target]
KillCommand(isRemote, session, faults) ==
    /\ isRemote \in BOOLEAN
    /\ Ran(cccKill(isRemote, session, world, faults), cccKill(~isRemote, session, world, faults),
           faults, session)

\* ccc status / ccc remote list: getRemoteHostStatus(config.host); there is
\* no local counterpart, the twin is the same call
RemoteHostStatus(faults) ==
    /\ faults \subseteq {"ssh", "docker inspect", "pgrep takopi", "shpool list"} \cup Range(AgentOrder)
    /\ Ran(getRemoteHostStatus(world, faults), getRemoteHostStatus(world, faults), faults, "")

\* ccc agent add <name> [target]
AgentAddCommand(isRemote, faults) ==
    /\ isRemote \in BOOLEAN
    /\ Ran(cccAgentAdd(isRemote, world, faults), cccAgentAdd(~isRemote, world, faults),
           faults, "")

\* the process of the operation ends
ProcessEnds ==
    /\ mgrRun # NoRun
    /\ Changed(world)

\* ccc init: the container files are generated
InitCommand ==
    /\ ~world.dockerfile
    /\ Changed([world EXCEPT !.dockerfile = TRUE])

\* ccc in a running container: a session is created and attached
Attach(session) ==
    /\ world.container = "Running"
    /\ session \notin world.sessions
    /\ Changed([world EXCEPT !.sessions = @ \cup {session}])

\* the container stops
ContainerStops ==
    /\ world.container = "Running"
    /\ Changed([world EXCEPT !.container = "Stopped", !.sessions = {}, !.takopi = FALSE])

\* entrypoint.sh in the started container installs agents and may start takopi
EntrypointRuns(takopi, installed) ==
    /\ world.container = "Running"
    /\ world.installed \subseteq installed
    /\ <<takopi, installed>> # <<world.takopi, world.installed>>
    /\ Changed([world EXCEPT !.takopi = takopi, !.installed = installed])

StatusFaults == SUBSET ({"docker inspect", "pgrep takopi", "shpool list"} \cup Range(AgentOrder))

MgrNext ==
    \/ \E isRemote \in BOOLEAN, cmd \in ExecCommands, stdio \in {"pipe", "inherit"},
          ignoreError \in BOOLEAN, failing \in BOOLEAN, unreachable \in BOOLEAN :
          ExecCommand(isRemote, cmd, ExecOptions(stdio, ignoreError),
                      {cmd.op : x \in {failing} \ {FALSE}} \cup {"ssh" : x \in {unreachable} \ {FALSE}})
    \/ \E isRemote \in BOOLEAN, faults \in StatusFaults : GetStatus(isRemote, faults)
    \/ \E isRemote \in BOOLEAN, faults \in SUBSET {"shpool list"} : ListSessions(isRemote, faults)
    \/ \E isRemote \in BOOLEAN, faults \in SUBSET {"docker compose build", "spawn"},
          closeAfterError \in BOOLEAN : Build(isRemote, faults, closeAfterError)
    \/ \E isRemote \in BOOLEAN, faults \in SUBSET {"docker compose build"} :
          BuildCommand(isRemote, faults)
    \/ \E isRemote \in BOOLEAN, faults \in SUBSET {"docker compose up -d"} :
          StartCommand(isRemote, faults)
    \/ \E isRemote \in BOOLEAN, faults \in SUBSET {"docker restart"} :
          RestartCommand(isRemote, faults)
    \/ \E isRemote \in BOOLEAN, session \in Range(SessionOrder), faults \in SUBSET {"shpool kill"} :
          KillCommand(isRemote, session, faults)
    \/ \E faults \in SUBSET {"ssh", "docker inspect", "shpool list", AgentOrder[1]} :
          RemoteHostStatus(faults)
    \/ \E isRemote \in BOOLEAN,
          faults \in SUBSET {"docker compose build", "docker compose up -d", "image check"} :
          AgentAddCommand(isRemote, faults)
    \/ ProcessEnds
    \/ InitCommand
    \/ \E session \in Range(SessionOrder) : Attach(session)
    \/ ContainerStops
    \/ \E takopi \in BOOLEAN, installed \in SUBSET Range(AgentOrder) :
          EntrypointRuns(takopi, installed)

----------------------------------------------------------------------------
(* config.ts: the session listing read by getStatus *)

\* the characters of a listing: a header word, two session names, blank, newline
ListingChars == {"N", "m", "w", " ", "\n"}

LstIdle ==
    /\ listing = <<>>
    /\ listed = [done |-> FALSE, sessions |-> <<>>]

\* the container printed some listing
LstInit ==
    /\ listing \in SeqsUpTo(ListingChars, MaxListing)
    /\ listed = [done |-> FALSE, sessions |-> <<>>]

\* getStatus: the output of exec (trimmed), skipped when empty, parsed otherwise
ReadSessions ==
    /\ ~listed.done
    /\ listed' = [done |-> TRUE,
                  sessions |-> IF Trim(listing) = <<>> THEN <<>>
                               ELSE ParseSessions(Trim(listing))]
    /\ UNCHANGED <<listing, lstRest>>

LstNext == ReadSessions

----------------------------------------------------------------------------
(* deploy/local.ts: sessions attached to the running container, with and
   without --no-firewall *)

NoAttach == [session |-> "", noFirewall |-> FALSE, found |-> <<>>, commands |-> <<>>]

AttIdle ==
    /\ netfilter = CleanKernel
    /\ attachments = [s \in Range(SessionOrder) |-> "none"]
    /\ attLast = NoAttach

\* a running container whose entrypoint installed the policy: the chain of
\* the template and the addresses that resolved
AttInit ==
    /\ netfilter \in { [setExists |-> TRUE, allowed_ips |-> a, OUTPUT |-> PolicyChain] :
                         a \in {{}, {IpOf(1)}, {IpOf(1), IpOf(2)}} }
    /\ attachments = [s \in Range(SessionOrder) |-> "none"]
    /\ attLast = NoAttach

\* attachSession(containerName, sessionName, options): with noFirewall,
\* `docker exec ccc sudo iptables -F OUTPUT` first; then shpool attach
attachSession(k, sessionName, noFirewall) ==
    [netfilter |-> IF noFirewall THEN ExecIptablesFlush(k) ELSE k,
     commands |-> (IF noFirewall THEN <<"iptables -F OUTPUT">> ELSE <<>>)
                     \o <<"shpool attach">>]

\* ccc [session] [--no-firewall]
AttachSession(sessionName, noFirewall) ==
    /\ netfilter' = attachSession(netfilter, sessionName, noFirewall).netfilter
    /\ attachments' = [attachments EXCEPT
                          ![sessionName] = IF noFirewall THEN "no-firewall" ELSE "firewall"]
    /\ attLast' = [session |-> sessionName, noFirewall |-> noFirewall,
                   found |-> netfilter.OUTPUT,
                   commands |-> attachSession(netfilter, sessionName, noFirewall).commands]
    /\ UNCHANGED attRest

\* ccc kill <session>
SessionKilled(sessionName) ==
    /\ attachments[sessionName] # "none"
    /\ attachments' = [attachments EXCEPT ![sessionName] = "none"]
    /\ UNCHANGED <<netfilter, attLast, attRest>>

\* the container is started again: its sessions are gone and the entrypoint
\* installs the policy again
ContainerRestarted ==
    /\ attLast # NoAttach
    /\ netfilter' = [netfilter EXCEPT !.OUTPUT = PolicyChain]
    /\ attachments' = [s \in Range(SessionOrder) |-> "none"]
    /\ attLast' = NoAttach
    /\ UNCHANGED attRest

AttNext ==
    \/ \E sessionName \in Range(SessionOrder), noFirewall \in BOOLEAN :
          AttachSession(sessionName, noFirewall)
    \/ \E sessionName \in Range(SessionOrder) : SessionKilled(sessionName)
    \/ ContainerRestarted

----------------------------------------------------------------------------
(* cli.ts and extensions/mcp-injector.ts: the agent and extension commands,
   the default agent and the host-managed MCP configs *)

\* the agent templates and the format of their MCP config
McpFormat == [claude |-> "claude", codex |-> "codex", opencode |-> "opencode"]

\* readdirSync(AGENTS_DIR): the order of Object.keys(getAgents())
AgentFiles == <<"claude", "codex", "opencode">>

\* the extension templates of type mcp and the server each one declares
McpExtensions == [context7 |-> "npx context7", github |-> "npx github"]

\* the names given on the command line: the templates and an unknown one
AgentArgs == DOMAIN McpFormat \cup {"zed"}

ExtensionArgs == DOMAIN McpExtensions \cup {"zed"}

\* no config file for the agent yet
NoConfig == [exists |-> FALSE, servers |-> [n \in {} |-> ""]]

AgtIdle ==
    /\ enabledAgents = {}
    /\ default_agent = ""
    /\ enabledExtensions = {}
    /\ mcpConfigs = [a \in DOMAIN McpFormat |-> NoConfig]
    /\ agtLast = [cmd |-> "none", name |-> "", exitCode |-> 0]

\* a fresh installation
AgtInit == AgtIdle

\* injectMcpConfig(agent, extension) on the agent's config file: the entry
\* of the extension is set, the other entries are kept; nothing is written
\* for the codex format
injectMcpConfig(file, agent, extension) ==
    IF McpFormat[agent] = "codex" THEN [file |-> file, ok |-> FALSE]
    ELSE [file |-> [exists |-> TRUE,
                    servers |-> [n \in DOMAIN file.servers \cup {extension} |->
                                    IF n = extension THEN McpExtensions[extension]
                                    ELSE file.servers[n]]],
          ok |-> TRUE]

\* removeMcpConfig(agent, extensionName)
removeMcpConfig(file, agent, extensionName) ==
    IF ~file.exists \/ McpFormat[agent] = "codex" THEN [file |-> file, ok |-> FALSE]
    ELSE [file |-> [file EXCEPT !.servers = [n \in DOMAIN @ \ {extensionName} |-> @[n]]],
          ok |-> TRUE]

\* injectMcpConfigToAllAgents(Object.values(getAgents()), ext)
injectMcpConfigToAllAgents(configs, agents, extension) ==
    [a \in DOMAIN configs |->
        IF a \in agents THEN injectMcpConfig(configs[a], a, extension).file ELSE configs[a]]

\* removeMcpConfigFromAllAgents(Object.values(getAgents()), name)
removeMcpConfigFromAllAgents(configs, agents, extensionName) ==
    [a \in DOMAIN configs |->
        IF a \in agents THEN removeMcpConfig(configs[a], a, extensionName).file
        ELSE configs[a]]

CommandEnded(cmd, name, exitCode) == [cmd |-> cmd, name |-> name, exitCode |-> exitCode]

\* ccc agent add <name>: the config is enabled and becomes the default when
\* no default is stored (the rebuild that may follow changes none of this)
EnableAgent(name) ==
    /\ IF name \notin DOMAIN McpFormat THEN
           /\ agtLast' = CommandEnded("agent add", name, 1)
           /\ UNCHANGED <<enabledAgents, default_agent>>
       ELSE
           /\ enabledAgents' = enabledAgents \cup {name}
           /\ default_agent' = IF default_agent = "" THEN name ELSE default_agent
           /\ agtLast' = CommandEnded("agent add", name, 0)
    /\ UNCHANGED <<enabledExtensions, mcpConfigs, agtRest>>

\* ccc agent rm <name>
RemoveAgent(name) ==
    /\ IF name \notin enabledAgents THEN
           /\ agtLast' = CommandEnded("agent rm", name, 1)
           /\ UNCHANGED <<enabledAgents, default_agent>>
       ELSE
           LET remaining == SelectSeq(AgentFiles, LAMBDA a : a \in enabledAgents \ {name})
           IN  /\ enabledAgents' = enabledAgents \ {name}
               /\ default_agent' = IF default_agent = name /\ Len(remaining) > 0
                                   THEN remaining[1] ELSE default_agent
               /\ agtLast' = CommandEnded("agent rm", name, 0)
    /\ UNCHANGED <<enabledExtensions, mcpConfigs, agtRest>>

\* ccc agent default <name>
SetDefaultAgent(name) ==
    /\ IF name \notin enabledAgents THEN
           /\ agtLast' = CommandEnded("agent default", name, 1)
           /\ UNCHANGED default_agent
       ELSE
           /\ default_agent' = name
           /\ agtLast' = CommandEnded("agent default", name, 0)
    /\ UNCHANGED <<enabledAgents, enabledExtensions, mcpConfigs, agtRest>>

\* ccc extension add <name>
EnableExtension(name) ==
    /\ IF name \notin DOMAIN McpExtensions THEN
           /\ agtLast' = CommandEnded("extension add", name, 1)
           /\ UNCHANGED <<enabledExtensions, mcpConfigs>>
       ELSE IF name \in enabledExtensions THEN
           /\ agtLast' = CommandEnded("extension add", name, 0)
           /\ UNCHANGED <<enabledExtensions, mcpConfigs>>
       ELSE
           /\ enabledExtensions' = enabledExtensions \cup {name}
           /\ mcpConfigs' = injectMcpConfigToAllAgents(mcpConfigs, enabledAgents, name)
           /\ agtLast' = CommandEnded("extension add", name, 0)
    /\ UNCHANGED <<enabledAgents, default_agent, agtRest>>

\* ccc extension rm <name>
DisableExtension(name) ==
    /\ IF name \notin enabledExtensions THEN
           /\ agtLast' = CommandEnded("extension rm", name, 1)
           /\ UNCHANGED <<enabledExtensions, mcpConfigs>>
       ELSE
           /\ mcpConfigs' = removeMcpConfigFromAllAgents(mcpConfigs, enabledAgents, name)
           /\ enabledExtensions' = enabledExtensions \ {name}
           /\ agtLast' = CommandEnded("extension rm", name, 0)
    /\ UNCHANGED <<enabledAgents, default_agent, agtRest>>

AgtNext ==
    \/ \E name \in AgentArgs : EnableAgent(name)
    \/ \E name \in AgentArgs : RemoveAgent(name)
    \/ \E name \in AgentArgs : SetDefaultAgent(name)
    \/ \E name \in ExtensionArgs : EnableExtension(name)
    \/ \E name \in ExtensionArgs : DisableExtension(name)

----------------------------------------------------------------------------
(* Specifications *)

\* generateFirewall called on every bounded input
InitFirewall == FwInit /\ PolIdle /\ CliIdle /\ ValIdle /\ RegIdle /\ ApiIdle /\ MgrIdle /\ LstIdle /\ AttIdle /\ AgtIdle

SpecFirewall == InitFirewall /\ [][FwNext]_vars

\* init-firewall.sh executed in a container
InitPolicy == PolInit /\ FwIdle /\ CliIdle /\ ValIdle /\ RegIdle /\ ApiIdle /\ MgrIdle /\ LstIdle /\ AttIdle /\ AgtIdle

SpecPolicy == InitPolicy /\ [][PolNext]_vars

InitCli == CliInit /\ FwIdle /\ PolIdle /\ ValIdle /\ RegIdle /\ ApiIdle /\ MgrIdle /\ LstIdle /\ AttIdle /\ AgtIdle

\* the ccc commands run one after another on a fresh installation
SpecCli == InitCli /\ [][CliNext]_vars

InitValidate == ValInit /\ FwIdle /\ PolIdle /\ CliIdle /\ RegIdle /\ ApiIdle /\ MgrIdle /\ LstIdle /\ AttIdle /\ AgtIdle

\* assertValidHost applied to every bounded host string
SpecValidate == InitValidate /\ [][ValNext]_vars

InitRegistry == RegInit /\ FwIdle /\ PolIdle /\ CliIdle /\ ValIdle /\ ApiIdle /\ MgrIdle /\ LstIdle /\ AttIdle /\ AgtIdle

\* the ccc commands that read or change the remotes registry
SpecRegistry == InitRegistry /\ [][RegNext]_vars

InitConfigApi == ApiInit /\ FwIdle /\ PolIdle /\ CliIdle /\ ValIdle /\ RegIdle /\ MgrIdle /\ LstIdle /\ AttIdle /\ AgtIdle

\* the functions of config.ts, and the commands that leave the target to
\* resolveTarget, called one after another
SpecConfigApi == InitConfigApi /\ [][ApiNext]_vars

InitManager == MgrInit /\ FwIdle /\ PolIdle /\ CliIdle /\ ValIdle /\ RegIdle /\ ApiIdle /\ LstIdle /\ AttIdle /\ AgtIdle

\* the executor, the ContainerManager and the commands built on it
SpecManager == InitManager /\ [][MgrNext]_vars

InitListing == LstInit /\ FwIdle /\ PolIdle /\ CliIdle /\ ValIdle /\ RegIdle /\ ApiIdle /\ MgrIdle /\ AttIdle /\ AgtIdle

\* getStatus reading every bounded session listing
SpecListing == InitListing /\ [][LstNext]_vars

InitAttach == AttInit /\ FwIdle /\ PolIdle /\ CliIdle /\ ValIdle /\ RegIdle /\ ApiIdle /\ MgrIdle /\ LstIdle /\ AgtIdle

\* sessions attached to a running container one after another
SpecAttach == InitAttach /\ [][AttNext]_vars

InitAgents == AgtInit /\ FwIdle /\ PolIdle /\ CliIdle /\ ValIdle /\ RegIdle /\ ApiIdle /\ MgrIdle /\ LstIdle /\ AttIdle

\* the agent and extension commands run one after another
SpecAgents == InitAgents /\ [][AgtNext]_vars

----------------------------------------------------------------------------
(* Claims on the allowlist compiler *)

\* C1: for every combination of agent, extension and user domain lists, the
\* domain list emitted by generateFirewall is exactly the union of the three
\* sources, every domain once.
C1_AllowlistIsUnionOfThreeSources ==
    fwPc # "input" =>
        /\ Range(fwScript.ALLOWED_DOMAINS) = DeclaredDomains(fwOptions)
        /\ NoDuplicates(fwScript.ALLOWED_DOMAINS)

IsLexSorted(s) == \A i, j \in DOMAIN s : i < j => s[i] < s[j]

\* C3: two calls of generateFirewall whose inputs declare the same domain set
\* return byte-identical scripts, and the emitted domain list is in
\* lexicographic order.
C3_SameDomainSetSameScript ==
    fwPc = "recompiled" =>
        /\ DeclaredDomains(fwOptions) = DeclaredDomains(fwOptions2) => fwScript = fwScript2
        /\ IsLexSorted(fwScript.ALLOWED_DOMAINS)
        /\ IsLexSorted(fwScript2.ALLOWED_DOMAINS)

----------------------------------------------------------------------------
(* Packets leaving the container and the verdict of the OUTPUT chain *)

PortOf == [tcp |-> {"22", "53", "80", "443", "8080"},
           udp |-> {"53", "443"},
           icmp |-> {"none"}]

Packets ==
    { [out |-> o, proto |-> p, dport |-> dp, ctstate |-> c, dst |-> ip] :
        o \in {"lo", "eth0"}, p \in {"tcp", "udp", "icmp"},
        dp \in {"22", "53", "80", "443", "8080", "none"},
        c \in {"NEW", "ESTABLISHED", "RELATED", "INVALID"}, ip \in Ips }

OutboundPackets == {pkt \in Packets : pkt.dport \in PortOf[pkt.proto]}

\* A match that ignores -m set --match-set
MatchesWithoutSet(rule, pkt, k) ==
    /\ rule.out \in {"any", pkt.out}
    /\ rule.proto \in {"any", pkt.proto}
    /\ rule.dport \in {"any", pkt.dport}
    /\ rule.ctstate = "any" \/ pkt.ctstate \in {"ESTABLISHED", "RELATED"}

\* the match of one iptables rule: -o, -p, --dport, -m state, -m set --match-set
Matches(rule, pkt, k) ==
    /\ rule.out \in {"any", pkt.out}
    /\ rule.proto \in {"any", pkt.proto}
    /\ rule.dport \in {"any", pkt.dport}
    /\ rule.ctstate = "any" \/ pkt.ctstate \in {"ESTABLISHED", "RELATED"}
    /\ rule.matchSet => (k.setExists /\ pkt.dst \in k.allowed_ips)

RECURSIVE ChainVerdict(_, _, _)
\* first matching terminating rule wins; LOG does not terminate; a packet that
\* falls off the end of the built-in chain gets its policy, ACCEPT
ChainVerdict(chain, pkt, k) ==
    IF chain = <<>> THEN "ACCEPT"
    ELSE LET rule == RuleOf(Head(chain))
         IN  IF Matches(rule, pkt, k) /\ rule.target # "LOG" THEN rule.target
             ELSE ChainVerdict(Tail(chain), pkt, k)

Verdict(pkt) == ChainVerdict(kernel.OUTPUT, pkt, kernel)

\* the addresses dig returns for a set of domains
ResolvedIps(domains) == UNION {Grep(dns[d]).lines : d \in domains}

AddressesOf(domains) == {l.ip : l \in ResolvedIps(domains)}

Unresolvable(domain) == Grep(dns[domain]).lines = {}

Listed == Range(polScript.ALLOWED_DOMAINS)

----------------------------------------------------------------------------
(* Claims on the executed policy *)

\* C4: whatever the domain set (the empty one included), a completed run of
\* the script leaves in OUTPUT exactly: accept loopback; accept
\* ESTABLISHED/RELATED; accept UDP 53; accept TCP 53; accept TCP 22; accept
\* TCP 443 to allowed_ips; accept TCP 80 to allowed_ips; LOG; DROP -- in this
\* order, DROP last and no ACCEPT rule after it.
C4_FixedRuleOrderDropLast ==
    polStatus = "done" =>
        [i \in DOMAIN kernel.OUTPUT |-> RuleOf(kernel.OUTPUT[i])] =
          << [out |-> "lo",  proto |-> "any", dport |-> "any", ctstate |-> "any",
              matchSet |-> FALSE, target |-> "ACCEPT"],
             [out |-> "any", proto |-> "any", dport |-> "any",
              ctstate |-> "ESTABLISHED,RELATED", matchSet |-> FALSE, target |-> "ACCEPT"],
             [out |-> "any", proto |-> "udp", dport |-> "53", ctstate |-> "any",
              matchSet |-> FALSE, target |-> "ACCEPT"],
             [out |-> "any", proto |-> "tcp", dport |-> "53", ctstate |-> "any",
              matchSet |-> FALSE, target |-> "ACCEPT"],
             [out |-> "any", proto |-> "tcp", dport |-> "22", ctstate |-> "any",
              matchSet |-> FALSE, target |-> "ACCEPT"],
             [out |-> "any", proto |-> "tcp", dport |-> "443", ctstate |-> "any",
              matchSet |-> TRUE, target |-> "ACCEPT"],
             [out |-> "any", proto |-> "tcp", dport |-> "80", ctstate |-> "any",
              matchSet |-> TRUE, target |-> "ACCEPT"],
             [out |-> "any", proto |-> "any", dport |-> "any", ctstate |-> "any",
              matchSet |-> FALSE, target |-> "LOG"],
             [out |-> "any", proto |-> "any", dport |-> "any", ctstate |-> "any",
              matchSet |-> FALSE, target |-> "DROP"] >>

\* a run over the empty domain list completed on top of a foreign chain
C4_Witness ==
    /\ polStatus = "done"
    /\ polScript.ALLOWED_DOMAINS = <<>>
    /\ Len(kernel.OUTPUT) = 9

\* C5: a complete run started from any prior OUTPUT chain and allowed_ips set
\* ends, for the same DNS answers, in the OUTPUT chain and the allowed_ips
\* content of a run from a clean state; no rule appears twice and no address
\* of an earlier policy remains.
C5_RerunEqualsCleanRun ==
    polStatus = "done" =>
        /\ kernel = cleanKernel
        /\ NoDuplicates(kernel.OUTPUT)
        /\ kernel.allowed_ips \subseteq AddressesOf(Listed)

\* a second run completed on the chain and the set its first run left
C5_Witness ==
    /\ polStatus = "done"
    /\ polRuns = 2
    /\ kernel.allowed_ips # {}

\* C6: a listed domain that does not resolve adds no address, the script is
\* not aborted by it and ends with the LOG, DROP tail installed, and the
\* addresses of the listed domains that resolve are in allowed_ips.
C6_UnresolvableDomainSkipped ==
    /\ (caps.ipset /\ caps.iptables) => polStatus # "aborted"
    /\ polStatus = "done" =>
          /\ kernel.allowed_ips = AddressesOf({d \in Listed : ~Unresolvable(d)})
          /\ Len(kernel.OUTPUT) >= 2
          /\ SubSeq(kernel.OUTPUT, Len(kernel.OUTPUT) - 1, Len(kernel.OUTPUT)) = <<"log", "drop">>
          /\ \A pkt \in OutboundPackets :
                (pkt.out = "eth0" /\ pkt.ctstate = "NEW" /\ pkt.proto = "tcp"
                    /\ pkt.dport \in {"80", "443"})
                => (Verdict(pkt) = "ACCEPT" <=> pkt.dst \in AddressesOf(Listed))

\* a completed run in which one listed domain did not resolve and another did
C6_Witness ==
    /\ polStatus = "done"
    /\ \E d1, d2 \in Listed : Unresolvable(d1) /\ ~Unresolvable(d2)

----------------------------------------------------------------------------
(* Claims on the CLI handlers *)

\* C2: whenever a handler regenerates init-firewall.sh from all enabled
\* sources, every domain of the previous allowlist that an enabled agent, an
\* enabled extension or the user list still declares is in the new allowlist
\* (union semantics), and the new allowlist holds no domain that no active
\* source declares.
C2_DeclaredDomainStays ==
    [][ (cliLast'.regen # "none" /\ cliLast'.agents = agentsDir') =>
          LET old == Range(files[cliLast'.regen].firewall.ALLOWED_DOMAINS)
              new == Range(files'[cliLast'.regen].firewall.ALLOWED_DOMAINS)
              active == ActiveDomains(getAgents, loadExtensions, userFirewallDomains)'
          IN  /\ \A d \in old : d \in active => d \in new
              /\ new \subseteq active ]_vars

\* C8: a successful ccc build that follows a change of the firewall domains
\* (firewall add/rm, extension add/rm) puts into the image of its target,
\* local or remote, an init-firewall.sh that lists exactly the current union
\* of agent, extension and user domains.
C8_BuildAppliesFirewallChange ==
    [][ (cliLast'.cmd = "build" /\ cliLast'.ok /\ cliLast'.target \in fwPending) =>
          Range(image'[cliLast'.target].ALLOWED_DOMAINS)
            = ActiveDomains(getAgents, loadExtensions, userFirewallDomains)' ]_vars

----------------------------------------------------------------------------
(* Claims on host validation *)

AtPositions(s) == {i \in DOMAIN s : s[i] = "@"}

\* [user@]host: no "@" and a non-empty host of the hostname class, or exactly
\* one "@" with a non-empty user of [A-Za-z0-9._~-] before it and a non-empty
\* host of the hostname class after it
WellFormedHostSpec(s) ==
    \/ /\ AtPositions(s) = {}
       /\ Len(s) >= 1
       /\ \A i \in DOMAIN s : s[i] \in HOSTNAME_PATTERN
    \/ \E k \in DOMAIN s :
          /\ AtPositions(s) = {k}
          /\ 1 < k /\ k < Len(s)
          /\ \A i \in 1..(k - 1) : s[i] \in USER_CLASS
          /\ \A i \in (k + 1)..Len(s) : s[i] \in HOSTNAME_PATTERN

\* C10: assertValidHost accepts a string exactly when it has the form
\* [user@]host (at most one "@", non-empty user of [A-Za-z0-9._~-] when
\* present, non-empty host of the hostname class); a rejected string ends the
\* process with exit code 1 and no command is composed; "user@bad host" is
\* rejected, "user@192.168.1.100" and "plainhost.example.com" are accepted.
C10_AcceptsExactlyWellFormed ==
    valPc \in {"validated", "composed", "exited"} =>
        /\ valPc = "exited" <=> ~WellFormedHostSpec(hostArg)
        /\ valPc = "exited" => valExitCode = 1 /\ valCommand = <<>>
        /\ valCommand # <<>> => WellFormedHostSpec(hostArg)
        /\ hostArg = UserBadHost => valPc = "exited"
        /\ hostArg \in {UserAtIp, PlainHost} => valPc # "exited"

\* "user@bad host" has been rejected with exit code 1
C10_Witness ==
    /\ hostArg = UserBadHost
    /\ valPc = "exited"
    /\ valExitCode = 1

----------------------------------------------------------------------------
(* Claims on the use of hosts *)

\* C9: in every execution of a command, every host placed into an ssh/scp
\* command has passed assertValidHost in that same execution; no malformed
\* or unvalidated host, one read from the remotes registry included, reaches
\* a command.
C9_HostValidatedBeforeUse ==
    \A h \in exec.ssh : h \in exec.validated /\ assertValidHost(h)

----------------------------------------------------------------------------
(* Claims on resolveTarget *)

\* a name or alias without its leading "@"
Strip(s) == IF s # <<>> /\ s[1] = "@" THEN Tail(s) ELSE s

\* a direct user@host target
DirectHost(t) == AtPositions(t) # {} /\ 1 \notin AtPositions(t)

\* t is the name or an alias of a registered remote
Registered(cfg, t) ==
    \E i \in DOMAIN cfg.remotes :
        \/ cfg.remotes[i].name = Strip(t)
        \/ \E j \in DOMAIN cfg.remotes[i].alias : Strip(cfg.remotes[i].alias[j]) = Strip(t)

\* C11: resolveTarget on a target that is not "local", not a direct
\* user@host and not the name or alias of a registered remote prints an
\* error and exits with code 1; it returns null only for "local" (given, or
\* as the default of an omitted target), never for an unknown remote.
C11_UnknownTargetFailsFast ==
    call.fn = "resolveTarget" =>
        /\ (/\ call.target \notin {<<>>, Local}
            /\ ~DirectHost(call.target)
            /\ ~Registered(config, call.target))
           => /\ call.result.kind = "exit"
              /\ call.exitCode = 1
              /\ call.error = "Unknown remote"
        /\ call.result.kind = "local" =>
              \/ call.target = Local
              \/ call.target = <<>> /\ config.default = Local

C11_Witness ==
    /\ call.fn = "resolveTarget"
    /\ call.target = <<"@", "z">>
    /\ config.remotes = <<>>
    /\ call.exitCode = 1

\* C12: an omitted target is replaced by config.default, "local" yields
\* null, a user@host is returned unchanged after validation, and after
\* addRemote(n, h, aliases) resolveTarget("@n") and resolveTarget of each
\* alias, with or without "@", return h.
C12_RegisteredNameAndAliasesResolve ==
    /\ call.fn = "resolveTarget" =>
          /\ call.target = <<>> => call.result = resolveTarget(config, config.default)
          /\ call.target = Local => call.result.kind = "local"
          /\ DirectHost(call.target) /\ WellFormedHostSpec(call.target)
                => call.result.kind = "remote" /\ call.result.host = call.target
    /\ call.fn = "addRemote" /\ call.result.kind = "ok" =>
          /\ resolveTarget(config, <<"@">> \o call.name) = Resolved("remote", call.host, {call.host})
          /\ \A j \in DOMAIN call.alias :
                /\ resolveTarget(config, call.alias[j]).host = call.host
                /\ resolveTarget(config, <<"@">> \o Strip(call.alias[j])).host = call.host

----------------------------------------------------------------------------
(* Claims on the ContainerManager and the executor *)

\* the status of a container that is absent or cannot be inspected
EmptyStatus ==
    [exists |-> FALSE, running |-> FALSE, takopi |-> FALSE, sessions |-> <<>>, agents |-> <<>>]

\* the docker commands an operation issued, in order
Issued(run) == [i \in DOMAIN run.started |-> run.started[i].cmd]

\* the inspection of the last getStatus reported a running container
ConfirmedRunning ==
    /\ mgrRun.op = "getStatus"
    /\ mgrRun.input.world.container = "Running"
    /\ "docker inspect" \notin mgrRun.input.faults

\* C13: getStatus returns the all-empty status without raising when the
\* inspection fails, and exists:true, running:false with the rest empty when
\* the container is not running; in both cases it issued exactly one
\* command, the inspection, and no sub-probe.
C13_StatusShortCircuits ==
    (mgrRun.op = "getStatus" /\ ~ConfirmedRunning) =>
        /\ ~mgrRun.threw
        /\ Issued(mgrRun) = <<Command("docker inspect", "")>>
        /\ mgrRun.value =
              IF mgrRun.input.world.container = "Stopped"
                 /\ "docker inspect" \notin mgrRun.input.faults
              THEN [EmptyStatus EXCEPT !.exists = TRUE]
              ELSE EmptyStatus

C13_Witness ==
    /\ mgrRun.op = "getStatus"
    /\ mgrRun.input.world.container = "Stopped"
    /\ mgrRun.value.exists
    /\ Len(mgrRun.started) = 1

\* C14: when the container is confirmed running, a failing session listing
\* gives sessions:[] and a failing companion probe gives takopi:false, with
\* running:true; neither failure is raised and all the probes are executed.
C14_StatusFailSoft ==
    ConfirmedRunning =>
        /\ ~mgrRun.threw
        /\ mgrRun.value.running
        /\ "shpool list" \in mgrRun.input.faults => mgrRun.value.sessions = <<>>
        /\ ("pgrep takopi" \in mgrRun.input.faults \/ ~mgrRun.input.world.takopi)
              => ~mgrRun.value.takopi
        /\ Issued(mgrRun) =
              <<Command("docker inspect", ""), Command("pgrep takopi", ""),
                Command("shpool list", "")>>
              \o [i \in DOMAIN AgentOrder |-> Command("agent version", AgentOrder[i])]

C14_Witness ==
    /\ ConfirmedRunning
    /\ {"shpool list", "pgrep takopi"} \subseteq mgrRun.input.faults
    /\ mgrRun.input.world.sessions # {}
    /\ mgrRun.value.running

IsTrimOf(t, s) ==
    \E i \in 1..(Len(s) + 1), j \in 0..Len(s) :
        /\ t = SubSeq(s, i, j)
        /\ \A k \in DOMAIN s : (k < i \/ k > j) => s[k] \in Whitespace
        /\ t # <<>> => t[1] \notin Whitespace /\ t[Len(t)] \notin Whitespace

\* C16: exec, local or remote, starts the command once; on a nonzero exit
\* it raises unless ignoreError is set, and then returns the empty string; on
\* exit zero it returns the trimmed output it captured (nothing is captured
\* under stdio "inherit").
C16_ExecRaisesUnlessIgnored ==
    mgrRun.op = "exec" =>
        \A run \in {mgrRun, mgrTwin} :
            /\ Len(run.started) = 1
            /\ run.value.code # 0 =>
                  /\ run.threw <=> ~run.value.opts.ignoreError
                  /\ run.value.returned = <<>>
            /\ run.value.code = 0 =>
                  /\ ~run.threw
                  /\ IsTrimOf(run.value.returned,
                              IF run.value.opts.stdio = "pipe" THEN run.value.out ELSE <<>>)

C16_Witness ==
    /\ mgrRun.op = "exec"
    /\ mgrRun.isRemote
    /\ mgrRun.value.code # 0
    /\ ~mgrRun.value.opts.ignoreError
    /\ mgrRun.threw
    /\ mgrTwin.value.code = 0
    /\ mgrTwin.value.returned = <<"true">>

\* C17: an operation run with the local and with the remote executor from
\* the same container state and with the same command outcomes issues the
\* same docker commands, returns the same value or fails alike, and leaves
\* the container in the same state; so do the local and remote paths of a
\* CLI command.
C17_LocalAndRemoteAgree ==
    (mgrRun.op # "none" /\ "ssh" \notin mgrRun.input.faults) =>
        /\ Issued(mgrRun) = Issued(mgrTwin)
        /\ mgrRun.threw = mgrTwin.threw
        /\ mgrRun.value = mgrTwin.value
        /\ mgrRun.world = mgrTwin.world

\* C18: build resolves only when the build process closes with exit code 0;
\* a nonzero exit code or a failed launch rejects with an error carrying the
\* code; exactly one outcome is delivered; the container's state is what it
\* was before the build.
C18_BuildSucceedsOnlyOnExitZero ==
    mgrRun.op = "build" =>
        LET launched == "spawn" \notin mgrRun.input.faults
            exitZero == /\ mgrRun.input.world.dockerfile
                        /\ "docker compose build" \notin mgrRun.input.faults
                        /\ ~(mgrRun.isRemote /\ "ssh" \in mgrRun.input.faults)
        IN  /\ Len(mgrRun.value.outcomes) = 1
            /\ mgrRun.value.state = "resolved" <=> (launched /\ exitZero)
            /\ mgrRun.value.state = "resolved" => mgrRun.value.code = 0 /\ ~mgrRun.threw
            /\ mgrRun.value.state # "resolved" =>
                  /\ mgrRun.value.state = "rejected"
                  /\ mgrRun.threw
                  /\ mgrRun.value.code # 0
            /\ mgrRun.world = mgrRun.input.world

C18_Witness ==
    /\ mgrRun.op = "build"
    /\ mgrRun.input.world.container = "Running"
    /\ mgrRun.value.state = "rejected"
    /\ Len(mgrRun.messages) = 2
    /\ Len(mgrRun.value.outcomes) = 1

\* C19: killSession on a session that does not exist lets the failure of
\* the command reach the caller and prints no "killed" message; on an
\* existing session it removes that session and leaves the other sessions
\* and the container state as they were.
C19_KillMissingSessionFails ==
    mgrRun.op = "ccc kill" =>
        LET before == mgrRun.input.world
            exists == before.container = "Running" /\ mgrRun.input.arg \in before.sessions
        IN  /\ ~exists =>
                  /\ mgrRun.threw
                  /\ mgrRun.ended # "returned"
                  /\ mgrRun.messages = <<>>
                  /\ mgrRun.world = before
            /\ (exists /\ mgrRun.input.faults = {}) =>
                  /\ ~mgrRun.threw
                  /\ mgrRun.world = [before EXCEPT !.sessions = @ \ {mgrRun.input.arg}]

C19_Witness ==
    /\ mgrRun.op = "ccc kill"
    /\ mgrRun.input.world.container = "Running"
    /\ mgrRun.input.world.sessions = {SessionOrder[1]}
    /\ mgrRun.input.arg = SessionOrder[2]
    /\ mgrRun.threw

\* C20: restart on a container that is Stopped or Absent signals a failure:
\* no success message is printed and the command ends with a reported error
\* and a nonzero exit, not with an unhandled exception.
C20_RestartOfStoppedSignalsFailure ==
    (mgrRun.op = "ccc restart" /\ mgrRun.input.world.container \in {"Stopped", "Absent"}) =>
        /\ mgrRun.messages = <<>>
        /\ mgrRun.ended = "exit 1"

\* C21: getRemoteHostStatus for a host that fails the connectivity probe
\* returns reachable:false with the all-empty status, without raising and
\* without any container probe; for a reachable host it returns
\* reachable:true with exactly the status getStatus computes.
C21_UnreachableHostIsAStatus ==
    mgrRun.op = "getRemoteHostStatus" =>
        LET before == mgrRun.input.world
            faults == mgrRun.input.faults
            container == [f \in DOMAIN EmptyStatus |-> mgrRun.value[f]]
        IN  /\ "ssh" \in faults =>
                  /\ ~mgrRun.threw
                  /\ ~mgrRun.value.reachable
                  /\ container = EmptyStatus
                  /\ Issued(mgrRun) = <<Command("echo ok", "")>>
            /\ "ssh" \notin faults =>
                  /\ mgrRun.value.reachable
                  /\ container = getStatus(TRUE, before, faults).value
                  /\ mgrRun.threw = getStatus(TRUE, before, faults).threw
            /\ DOMAIN mgrRun.value = DOMAIN EmptyStatus \cup {"reachable"}

C21_Witness ==
    /\ mgrRun.op = "getRemoteHostStatus"
    /\ "ssh" \in mgrRun.input.faults
    /\ mgrRun.input.world.container = "Running"
    /\ mgrRun.input.world.sessions # {}
    /\ ~mgrRun.value.reachable
    /\ ~mgrRun.value.running

RECURSIVE FirstToken(_)
\* the first whitespace-delimited token of a line, "" when the line has none
FirstToken(line) ==
    IF line = <<>> THEN ""
    ELSE IF line[1] \in Whitespace THEN FirstToken(Tail(line))
    ELSE FirstField(line)

\* the tokens that start the lines after the header line
NamesListed(output) ==
    LET lines == Tail(SplitLines(output, 1, <<>>))
        hasToken(line) == FirstToken(line) # ""
        named == SelectSeq(lines, hasToken)
    IN  [i \in DOMAIN named |-> FirstToken(named[i])]

\* C22: for every listing that starts with a header line, the sessions of
\* getStatus are, in order, the first whitespace-delimited token of each
\* non-empty line after the header; a listing with only a header gives the
\* empty list, and a session line that starts with whitespace contributes
\* its name too.
C22_SessionsAreFirstTokens ==
    (listed.done /\ listing # <<>> /\ FirstToken(SplitLines(listing, 1, <<>>)[1]) # "") =>
        listed.sessions = NamesListed(listing)

\* C23: in `ccc agent add` with build enabled, after a successful rebuild
\* the container is started with force-recreate, on a remote target as on a
\* local one, and when the command completes the running container was
\* created from the image just built.
C23_RebuildIsFollowedByForceRecreate ==
    (mgrRun.op = "ccc agent add" /\ Len(mgrRun.started) = 2) =>
        /\ Issued(mgrRun)[2] = Command("docker compose up -d", "--force-recreate")
        /\ mgrRun.ended = "returned" =>
              /\ mgrRun.value.instance = "new"
              /\ mgrRun.world.container = "Running"

\* C25: whenever the entrypoint of a container started without
\* DISABLE_FIREWALL=true reaches exec "$@", the OUTPUT chain ends with the
\* default-deny DROP rule, whatever step of init-firewall.sh failed.
C25_WorkloadStartsBehindDefaultDeny ==
    polStatus = "workload" =>
        /\ kernel.OUTPUT # <<>>
        /\ RuleOf(kernel.OUTPUT[Len(kernel.OUTPUT)]).target = "DROP"

\* C24: attachSession with noFirewall flushes the OUTPUT chain before
\* attaching and an attach without it leaves the chain as it found it; a
\* session attached without --no-firewall is behind the default-deny policy
\* (a new HTTPS packet to an address that is not allowed is dropped), also
\* after an earlier attach to the same container used --no-firewall.
C24_NoFirewallIsPerSession ==
    /\ (attLast # NoAttach /\ attLast.noFirewall) =>
          /\ netfilter.OUTPUT = <<>>
          /\ attLast.commands = <<"iptables -F OUTPUT", "shpool attach">>
    /\ (attLast # NoAttach /\ ~attLast.noFirewall) =>
          /\ netfilter.OUTPUT = attLast.found
          /\ attLast.commands = <<"shpool attach">>
    /\ (\E s \in DOMAIN attachments : attachments[s] = "firewall") =>
          \A pkt \in OutboundPackets :
              (/\ pkt.ctstate = "NEW" /\ pkt.out = "eth0" /\ pkt.proto = "tcp"
               /\ pkt.dport = "443" /\ pkt.dst \notin netfilter.allowed_ips)
              => ChainVerdict(netfilter.OUTPUT, pkt, netfilter) = "DROP"

\* C26: after any sequence of addRemote, removeRemote and setDefault the
\* stored default is "local" or resolves to a registered remote:
\* resolveTarget() never exits with "Unknown remote", in particular after
\* the removal of the remote the default refers to, by name with or without
\* "@" or by alias.
C26_DefaultStaysResolvable ==
    ErrorOf(resolveTarget(config, <<>>)) # "Unknown remote"

\* C27: for every remotes registry, resolveTarget("@n") returns the host of
\* the remote registered under the name n, whatever the registration order
\* and whatever aliases the other remotes declare.
C27_AliasNeverShadowsName ==
    \A i \in DOMAIN config.remotes :
        LET r == resolveTarget(config, <<"@">> \o config.remotes[i].name)
        IN  /\ r.kind = "remote"
            /\ r.host = config.remotes[i].host

\* C28: after any sequence of agent add, agent rm and agent default the
\* stored default agent is unset or names an enabled agent, also after the
\* removal of the default agent when it was the last one enabled.
C28_DefaultAgentIsEnabled ==
    default_agent = "" \/ default_agent \in enabledAgents

\* C29: the host-managed MCP config of every enabled agent whose format is
\* not codex holds an entry for exactly the enabled MCP extensions, each
\* with the server the extension declares: an agent enabled after an
\* extension has its entry, and a removed extension has none.
C29_McpConfigsFollowExtensions ==
    \A a \in enabledAgents :
        McpFormat[a] # "codex" =>
            /\ DOMAIN mcpConfigs[a].servers = enabledExtensions
            /\ \A n \in DOMAIN mcpConfigs[a].servers :
                  mcpConfigs[a].servers[n] = McpExtensions[n]

\* C30: a command that takes an optional target and is invoked without one
\* acts on the configured default: on the remote the default resolves to
\* when the default is a registered remote, locally when it is "local";
\* this for ccc (attach), build, start, kill, logs and restart alike.
C30_OmittedTargetMeansDefault ==
    (/\ call.fn \in OptionalTargetCommands
     /\ resolveTarget(config, config.default).kind \in {"local", "remote"})
    => /\ call.result.kind = resolveTarget(config, config.default).kind
       /\ call.result.host = resolveTarget(config, config.default).host

====
